---- MODULE Spec2Model ----
(***************************************************************************)
(* Model of the cryptopals attack code (package cpaes, cppad, cpbytes,     *)
(* cpxor): PKCS#7 padding, AES ECB/CBC modes, the ECB detector, the ECB    *)
(* byte-at-a-time attacks and the CBC padding-oracle attack.               *)
(*                                                                         *)
(* Byte slices are sequences of integers in 0..255.  Go indexes from 0,    *)
(* TLA+ sequences from 1: At(s, i) reads Go's s[i] and Slice(s, a, b)      *)
(* reads Go's s[a:b].                                                      *)
(***************************************************************************)
EXTENDS Integers, Sequences, FiniteSets, TLC

VARIABLES
    pc,       \* position of the running function ("call", "done", "panic", ...)
    input,    \* the arguments / hidden oracle state of the run, fixed at Init
    output,   \* the value returned to the caller ("none" until it returns)
    cipherText, \* the cipher text a run has obtained (<<>> until it has one)
    atk       \* the local variables of the running ECB attack (a record)

vars == <<pc, input, output, cipherText, atk>>

\* the value of atk while no attack runs
NoAtk == [fn |-> "none"]

---------------------------------------------------------------------------
(* Bytes and slices *)

ByteRange == 256

Byte == 0..(ByteRange - 1)

At(s, i) == s[i + 1]

Slice(s, a, b) == SubSeq(s, a + 1, b)

\* make([]byte, n): n zero bytes
Zeros(n) == [i \in 1..n |-> 0]

\* All byte sequences over alphabet S of length 0..n
SeqsUpTo(S, n) == UNION {[1..k -> S] : k \in 0..n}

Min(a, b) == IF a < b THEN a ELSE b

---------------------------------------------------------------------------
(* cppad: PKCS#7 *)

\* cppad.PKCS7, mutated: no padding block when len(data) is a multiple of size
PKCS7NoFullBlock(data, sz) ==
    LET dLen == Len(data)
        pad  == (sz - (dLen % sz)) % sz
    IN  [i \in 1..(dLen + pad) |-> IF i <= dLen THEN data[i] ELSE pad % ByteRange]

\* cppad.PKCS7(data, size): data followed by pad bytes of value pad.
PKCS7(data, sz) ==
    LET dLen == Len(data)
        pad  == sz - (dLen % sz)
    IN  [i \in 1..(dLen + pad) |-> IF i <= dLen THEN data[i] ELSE pad % ByteRange]

\* The checking loop of RemovePKCS7: for i := dLen-1; i > dLen-lastByte-1; i--
\* (i is the loop's first index: every index j in stop+1..i is visited until
\* one differs)
PadBytesEqualFrom(data, i, stop, lastByte) ==
    \A j \in (stop + 1)..i : At(data, j) = lastByte

\* The second guard of RemovePKCS7, mutated: dLen <= lastByte
LastByteTooLargeOffByOne(dLen, lastByte) == dLen <= lastByte

\* The second guard of RemovePKCS7: dLen < int(lastByte)
LastByteTooLarge(dLen, lastByte) == dLen < lastByte

\* cppad.RemovePKCS7(data): [err, data]; on error the returned slice is nil.
RemovePKCS7(data) ==
    IF Len(data) = 0 THEN [err |-> FALSE, data |-> data]
    ELSE LET dLen     == Len(data)
             lastByte == At(data, Len(data) - 1)
         IN  IF lastByte = 0 THEN [err |-> TRUE, data |-> <<>>]
             ELSE IF LastByteTooLarge(dLen, lastByte) THEN [err |-> TRUE, data |-> <<>>]
             ELSE IF ~PadBytesEqualFrom(data, dLen - 1, dLen - lastByte - 1, lastByte)
                  THEN [err |-> TRUE, data |-> <<>>]
             ELSE [err |-> FALSE, data |-> Slice(data, 0, dLen - lastByte)]

---------------------------------------------------------------------------
(* cpxor.Blocks and the block cipher *)

RECURSIVE XorInt(_, _)
XorInt(a, b) ==
    IF a = 0 THEN b
    ELSE IF b = 0 THEN a
    ELSE ((a + b) % 2) + 2 * XorInt(a \div 2, b \div 2)

\* Go's ^ on two bytes, tabulated once
XorTab == [a \in Byte |-> [b \in Byte |-> XorInt(a, b)]]

Xor(a, b) == XorTab[a][b]

\* cpxor.Blocks(b1, b2): [err, data]
Blocks(b1, b2) ==
    IF Len(b1) # Len(b2) THEN [err |-> TRUE, data |-> <<>>]
    ELSE [err |-> FALSE, data |-> [i \in 1..Len(b1) |-> Xor(b1[i], b2[i])]]

BlockSize == 16

\* aes.NewCipher accepts keys of 16, 24 or 32 bytes only
ValidKeyLen(key) == Len(key) \in {16, 24, 32}

\* crypto/aes is an external keyed permutation of 16-byte blocks.  The code
\* relies only on its being a bijection for every key; it is modelled by the
\* bijection "rotate the block by one byte, add the key byte".
AESEncryptBlock(key, b) ==
    [i \in 1..BlockSize |-> (b[(i % BlockSize) + 1] + key[i]) % ByteRange]

AESDecryptBlock(key, c) ==
    [j \in 1..BlockSize |->
        LET i == ((j + BlockSize - 2) % BlockSize) + 1
        IN  (c[i] - key[i] + ByteRange) % ByteRange]

\* encrypter of encryptionOracle(key): cipher.Block.Encrypt writes the
\* encryption of the first 16 bytes of src into a zeroed dst of len(src).
encrypter(key, plainText) ==
    AESEncryptBlock(key, plainText) \o Zeros(Len(plainText) - BlockSize)

\* decrypter of decryptionOracle(key)
decrypter(key, cText) ==
    AESDecryptBlock(key, cText) \o Zeros(Len(cText) - BlockSize)

---------------------------------------------------------------------------
(* cpaes: ECB mode *)

RECURSIVE ecbEncryptLoop(_, _, _, _)
ecbEncryptLoop(plainText, key, i, nBlocks) ==
    IF i = nBlocks THEN <<>>
    ELSE encrypter(key, Slice(plainText, i * BlockSize, i * BlockSize + BlockSize))
             \o ecbEncryptLoop(plainText, key, i + 1, nBlocks)

\* encryptECB(plainText, key): [err, data]
encryptECB(plainText, key) ==
    LET padded  == PKCS7(plainText, BlockSize)
        nBlocks == (Len(padded) + BlockSize - 1) \div BlockSize
    IN  IF ~ValidKeyLen(key) THEN [err |-> TRUE, data |-> <<>>]
        ELSE [err |-> FALSE, data |-> ecbEncryptLoop(padded, key, 0, nBlocks)]

RECURSIVE ecbDecryptLoop(_, _, _, _, _)
ecbDecryptLoop(cText, key, blkSize, i, nBlocks) ==
    IF i = nBlocks THEN <<>>
    ELSE decrypter(key, Slice(cText, i * blkSize, i * blkSize + blkSize))
             \o ecbDecryptLoop(cText, key, blkSize, i + 1, nBlocks)

\* decryptECB(cipherText, key): [err, data]; its block size is the key length
decryptECB(cText, key) ==
    LET cLen    == Len(cText)
        kLen    == Len(key)
        nBlocks == (cLen + kLen - 1) \div kLen
    IN  IF cLen % kLen # 0 THEN [err |-> TRUE, data |-> <<>>]
        ELSE IF ~ValidKeyLen(key) THEN [err |-> TRUE, data |-> <<>>]
        ELSE [err |-> FALSE, data |-> ecbDecryptLoop(cText, key, kLen, 0, nBlocks)]

\* blkSet[currBlk] = struct{}{}, mutated: the set keeps only the last block
BlkSetInsertOnlyLast(blkSet, currBlk) == {currBlk}

\* blkSet[currBlk] = struct{}{}
BlkSetInsert(blkSet, currBlk) == blkSet \cup {currBlk}

RECURSIVE detectECBLoop(_, _, _, _)
detectECBLoop(cText, i, nBlocks, blkSet) ==
    IF i = nBlocks THEN FALSE
    ELSE LET currBlk == Slice(cText, i * BlockSize, i * BlockSize + BlockSize)
         IN  IF currBlk \in blkSet THEN TRUE
             ELSE detectECBLoop(cText, i + 1, nBlocks, BlkSetInsert(blkSet, currBlk))

\* detectECB(cipherText)
detectECB(cText) ==
    LET cLen    == Len(cText)
        nBlocks == (cLen + BlockSize - 1) \div BlockSize
    IN  IF cLen % BlockSize # 0 THEN FALSE
        ELSE detectECBLoop(cText, 0, nBlocks, {})

---------------------------------------------------------------------------
(* cpaes: CBC mode *)

RECURSIVE cbcEncryptLoop(_, _, _, _, _)
cbcEncryptLoop(padded, key, i, nBlocks, cText) ==
    IF ~(i < nBlocks) THEN cText
    ELSE LET prevBlk == Slice(cText, (i - 1) * BlockSize, (i - 1) * BlockSize + BlockSize)
             currBlk == Slice(padded, i * BlockSize, i * BlockSize + BlockSize)
             nextBlk == Blocks(prevBlk, currBlk).data
         IN  cbcEncryptLoop(padded, key, i + 1, nBlocks, cText \o encrypter(key, nextBlk))

\* encryptCBC(iv, plainText, key): [err, data]
encryptCBC(iv, plainText, key) ==
    LET ivLen    == Len(iv)
        kLen     == Len(key)
        padded   == PKCS7(plainText, BlockSize)
        nBlocks  == (Len(padded) + BlockSize - 1) \div BlockSize
        firstBlk == Blocks(Slice(padded, 0, BlockSize), iv)
    IN  IF ivLen % kLen # 0 THEN [err |-> TRUE, data |-> <<>>]
        ELSE IF ~ValidKeyLen(key) THEN [err |-> TRUE, data |-> <<>>]
        ELSE IF firstBlk.err THEN [err |-> TRUE, data |-> <<>>]
        ELSE [err |-> FALSE,
              data |-> cbcEncryptLoop(padded, key, 1, nBlocks, encrypter(key, firstBlk.data))]

RECURSIVE cbcDecryptLoop(_, _, _, _, _, _)
cbcDecryptLoop(cText, key, blkSize, i, nBlocks, plain) ==
    IF ~(i < nBlocks) THEN plain
    ELSE LET prevBlk == Slice(cText, (i - 1) * blkSize, (i - 1) * blkSize + blkSize)
             currBlk == decrypter(key, Slice(cText, i * blkSize, i * blkSize + blkSize))
             nextBlk == Blocks(prevBlk, currBlk).data
         IN  cbcDecryptLoop(cText, key, blkSize, i + 1, nBlocks, plain \o nextBlk)

\* decryptCBC(iv, cipherText, key): [err, data]; its block size is the key
\* length; the plain text keeps its padding
decryptCBC(iv, cText, key) ==
    LET cLen     == Len(cText)
        kLen     == Len(key)
        ivLen    == Len(iv)
        nBlocks  == (cLen + kLen - 1) \div kLen
        firstBlk == Blocks(decrypter(key, Slice(cText, 0, kLen)), iv)
    IN  IF cLen % kLen # 0 THEN [err |-> TRUE, data |-> <<>>]
        ELSE IF ivLen % kLen # 0 THEN [err |-> TRUE, data |-> <<>>]
        ELSE IF ~ValidKeyLen(key) THEN [err |-> TRUE, data |-> <<>>]
        ELSE IF firstBlk.err THEN [err |-> TRUE, data |-> <<>>]
        ELSE [err |-> FALSE,
              data |-> cbcDecryptLoop(cText, key, kLen, 1, nBlocks, firstBlk.data)]

---------------------------------------------------------------------------
(* cpbytes: random bytes.  A slice of "random" bytes is one of a family of  *)
(* byte patterns, chosen by a seed: byte i is (seed + step * i) mod 256.    *)

Pattern(seed, step, n) == [i \in 1..n |-> (seed + step * (i - 1)) % ByteRange]

\* cpbytes.AddNoise(data, min, max) once the two random slices are drawn
AddNoise(data, prefix, suffix) == prefix \o data \o suffix

\* randomEncryption(plainText) once its random choices are drawn: the noise,
\* the key, the coin flip and the IV
randomEncryption(plainText, prefix, suffix, key, coinFlip, iv) ==
    LET padded == AddNoise(plainText, prefix, suffix)
    IN  IF coinFlip = 0 THEN encryptECB(padded, key)
        ELSE encryptCBC(iv, padded, key)

---------------------------------------------------------------------------
(* Specification SpecPKCS7: RemovePKCS7 applied to every short byte slice *)

MaxDataLen == 4

\* byte values that make every branch of RemovePKCS7 happen
PadSample == {0, 1, 2, 3, 255}

InitPKCS7 ==
    /\ pc = "call"
    /\ input \in [data : SeqsUpTo(PadSample, MaxDataLen)]
    /\ output = "none"
    /\ cipherText = <<>>
    /\ atk = NoAtk

CallRemovePKCS7 ==
    /\ pc = "call"
    /\ output' = RemovePKCS7(input.data)
    /\ pc' = "done"
    /\ UNCHANGED <<input, cipherText, atk>>

NextPKCS7 == CallRemovePKCS7

SpecPKCS7 == InitPKCS7 /\ [][NextPKCS7]_vars

\* C10: for non-empty d, RemovePKCS7(d) fails exactly when the last byte is 0,
\* or exceeds len(d), or the trailing (last byte) bytes are not all equal to
\* it; otherwise it returns d without its final (last byte) bytes; the empty
\* slice is returned unchanged with no error.
C10_RemovePKCS7Contract ==
    pc = "done" =>
        LET d == input.data
        IN  IF d = <<>> THEN output = [err |-> FALSE, data |-> <<>>]
            ELSE LET last == d[Len(d)]
                     bad  == \/ last = 0
                             \/ last > Len(d)
                             \/ \E i \in 1..Len(d) :
                                    i > Len(d) - last /\ d[i] # last
                 IN  /\ output.err = bad
                     /\ ~bad => output.data = SubSeq(d, 1, Len(d) - last)

\* a slice whose whole content is padding (last byte = len(d) = 2) was unpadded
C10_Witness ==
    /\ pc = "done"
    /\ input.data = <<2, 2>>
    /\ output = [err |-> FALSE, data |-> <<>>]

---------------------------------------------------------------------------
(* Specification SpecDetect: detectECB applied to short cipher texts *)

MaxDetectBlocks == 3

MaxTailLen == 2

\* three blocks that differ in one byte only (the first or the last)
DetectBlocks ==
    { Zeros(BlockSize),
      [i \in 1..BlockSize |-> IF i = BlockSize THEN 1 ELSE 0],
      [i \in 1..BlockSize |-> IF i = 1 THEN 1 ELSE 0] }

RECURSIVE Flatten(_)
Flatten(blks) == IF blks = <<>> THEN <<>> ELSE Head(blks) \o Flatten(Tail(blks))

\* whole blocks followed by 0..MaxTailLen bytes of an incomplete block
DetectInputs ==
    { Flatten(blks) \o Zeros(t) :
        blks \in SeqsUpTo(DetectBlocks, MaxDetectBlocks), t \in 0..MaxTailLen }

InitDetect ==
    /\ pc = "call"
    /\ input \in [data : DetectInputs]
    /\ output = "none"
    /\ cipherText = <<>>
    /\ atk = NoAtk

CallDetectECB ==
    /\ pc = "call"
    /\ output' = detectECB(input.data)
    /\ pc' = "done"
    /\ UNCHANGED <<input, cipherText, atk>>

NextDetect == CallDetectECB

SpecDetect == InitDetect /\ [][NextDetect]_vars

\* C7: detectECB(c) is true iff len(c) is a multiple of 16 and two
\* block-aligned 16-byte blocks of c at different indices are identical; for
\* a length that is not a multiple of 16, and for the empty input, it returns
\* false (a boolean, never an error).
C7_DetectECBIffDuplicateBlock ==
    pc = "done" =>
        LET c == input.data
            n == Len(c) \div BlockSize
            B(i) == SubSeq(c, i * BlockSize + 1, (i + 1) * BlockSize)
        IN  /\ output \in BOOLEAN
            /\ output = ( /\ Len(c) % BlockSize = 0
                          /\ \E i, j \in 0..(n - 1) : i # j /\ B(i) = B(j) )

\* two equal blocks that are not neighbours were detected
C7_Witness ==
    /\ pc = "done"
    /\ Len(input.data) = 3 * BlockSize
    /\ SubSeq(input.data, 1, BlockSize) = SubSeq(input.data, 2 * BlockSize + 1, 3 * BlockSize)
    /\ SubSeq(input.data, 1, BlockSize) # SubSeq(input.data, BlockSize + 1, 2 * BlockSize)
    /\ output = TRUE

---------------------------------------------------------------------------
(* Specification SpecRandomEnc: TestRandomEncryption, one trial *)

NoiseMin == 5

NoiseMax == 10

RepeatCount == 5

\* "Let's encrypt this stuff", the text of TestRandomEncryption: 24 bytes
TestText ==
    <<76, 101, 116, 39, 115, 32, 101, 110, 99, 114, 121, 112, 116, 32,
      116, 104, 105, 115, 32, 115, 116, 117, 102, 102>>

\* the test's text, another text of its length, and a text one byte longer
Texts == {TestText, Pattern(1, 1, Len(TestText)), TestText \o <<33>>}

RECURSIVE Repeat(_, _)
Repeat(b, count) == IF count = 0 THEN <<>> ELSE b \o Repeat(b, count - 1)

TestKey == Pattern(89, 11, BlockSize)

TestIV == Pattern(5, 29, BlockSize)

InitRandomEnc ==
    /\ pc = "call"
    /\ \E text \in Texts, pLen \in NoiseMin..NoiseMax, sLen \in NoiseMin..NoiseMax,
          coinFlip \in {0, 1} :
          input = [text     |-> text,
                   prefix   |-> Pattern(200, 7, pLen),
                   suffix   |-> Pattern(90, 3, sLen),
                   key      |-> TestKey,
                   coinFlip |-> coinFlip,
                   iv       |-> TestIV]
    /\ output = "none"
    /\ cipherText = <<>>
    /\ atk = NoAtk

CallRandomEncryption ==
    /\ pc = "call"
    /\ LET r == randomEncryption(Repeat(input.text, RepeatCount), input.prefix,
                                 input.suffix, input.key, input.coinFlip, input.iv)
       IN  /\ cipherText' = r.data
           /\ pc' = IF r.err THEN "error" ELSE "encrypted"
    /\ UNCHANGED <<input, output, atk>>

DetectOnCipherText ==
    /\ pc = "encrypted"
    /\ output' = detectECB(cipherText)
    /\ pc' = "done"
    /\ UNCHANGED <<input, cipherText, atk>>

NextRandomEnc == CallRandomEncryption \/ DetectOnCipherText

SpecRandomEnc == InitRandomEnc /\ [][NextRandomEnc]_vars

\* C8 as stated: with noise of 5..10 bytes on each side, the ECB encryption
\* of five repetitions of a 25-byte text is flagged by detectECB.
C8_Original_25ByteTextDetected ==
    (pc = "done" /\ input.coinFlip = 0 /\ Len(input.text) = 25) => output = TRUE

\* C8 amended: with noise of 5..10 bytes on each side, the ECB encryption of
\* five repetitions of a 24-byte text (the length of the text that
\* TestRandomEncryption uses) is flagged by detectECB in every trial.
C8_24ByteTextDetected ==
    (pc = "done" /\ input.coinFlip = 0 /\ Len(input.text) = 24) => output = TRUE

\* the test's text under ECB with the longest noise prefix was flagged
C8_Witness ==
    /\ pc = "done"
    /\ input.coinFlip = 0
    /\ input.text = TestText
    /\ Len(input.prefix) = NoiseMax
    /\ output = TRUE

---------------------------------------------------------------------------
(* Specification SpecRoundTrip: encrypt, decrypt, remove the padding *)

MaxPlainLen == 33

\* one key of each length aes.NewCipher accepts
RoundTripKeys == {Pattern(89, 11, 16), Pattern(17, 5, 24), Pattern(201, 3, 32)}

InitRoundTrip ==
    /\ pc = "call"
    /\ \E n \in 0..MaxPlainLen, key \in RoundTripKeys, mode \in {"ECB", "CBC"} :
          input = [plainText |-> Pattern(65, 1, n),
                   key       |-> key,
                   iv        |-> TestIV,
                   mode      |-> mode]
    /\ output = "none"
    /\ cipherText = <<>>
    /\ atk = NoAtk

\* encryptECB(P, K) or encryptCBC(iv, P, K)
RoundTripEncrypt ==
    /\ pc = "call"
    /\ LET r == IF input.mode = "ECB" THEN encryptECB(input.plainText, input.key)
                ELSE encryptCBC(input.iv, input.plainText, input.key)
       IN  /\ cipherText' = r.data
           /\ pc' = IF r.err THEN "done" ELSE "encrypted"
           /\ output' = IF r.err THEN [err |-> TRUE, data |-> <<>>] ELSE output
    /\ UNCHANGED <<input, atk>>

\* RemovePKCS7(decryptECB(C, K)) or RemovePKCS7(decryptCBC(iv, C, K))
RoundTripDecrypt ==
    /\ pc = "encrypted"
    /\ LET r == IF input.mode = "ECB" THEN decryptECB(cipherText, input.key)
                ELSE decryptCBC(input.iv, cipherText, input.key)
       IN  output' = IF r.err THEN [err |-> TRUE, data |-> <<>>] ELSE RemovePKCS7(r.data)
    /\ pc' = "done"
    /\ UNCHANGED <<input, cipherText, atk>>

NextRoundTrip == RoundTripEncrypt \/ RoundTripDecrypt

SpecRoundTrip == InitRoundTrip /\ [][NextRoundTrip]_vars

\* C9: for every plain text P, every valid AES key (16, 24 or 32 bytes) and
\* 16-byte IV, encrypting, decrypting and removing the padding gives P back
\* with no error, in ECB and in CBC mode.
C9_RoundTrip ==
    pc = "done" => output = [err |-> FALSE, data |-> input.plainText]

---------------------------------------------------------------------------
(* cpaes: the ECB oracles.  The hidden state of an oracle (key, random     *)
(* prefix, secret) is input; atk.oracle names the oracle under attack.     *)

\* oracle of ecbEncryptionOracleWithSecret: ECB(plainText || secret)
oracleWithSecret(plainText) ==
    encryptECB(plainText \o input.secret, input.key).data

\* oracle of ecbEncryptionOracleWithPrefix: ECB(randPrefix || plainText || secret)
oracleWithPrefix(plainText) ==
    oracleWithSecret(input.prefix \o plainText)

\* wrapperOracle of byteAtTimeAtkWithPrefix
wrapperOracle(plainText) ==
    LET forgedPlainText == Zeros(atk.fillBytesAfterPrefix) \o plainText
        cText           == oracleWithPrefix(forgedPlainText)
    IN  Slice(cText, atk.prefixLen + atk.fillBytesAfterPrefix, Len(cText))

\* the Oracle argument of the running function
ECBOracle(plainText) ==
    CASE atk.oracle = "withSecret" -> oracleWithSecret(plainText)
      [] atk.oracle = "withPrefix" -> oracleWithPrefix(plainText)
      [] atk.oracle = "wrapper"    -> wrapperOracle(plainText)

\* the local variables of an ECB attack before it starts; noMatch tells that
\* the last guessByte / guessByte2 call ended its loop without a match, and
\* trials is the number of trial bytes that call gave to the oracle
NewAtk(fn, oracle) ==
    [fn |-> fn, oracle |-> oracle,
     i |-> 0, cipherLen |-> 0, blkSize |-> 0, suffixLength |-> 0,
     cipherTextCache |-> <<>>, cacheQueries |-> <<>>, nSecretBlks |-> 0, secret |-> <<>>,
     blkIdx |-> 0, size |-> 0, guessCalls |-> <<>>,
     fillBytes |-> 0, prefixLen |-> 0, fillBytesAfterPrefix |-> 0,
     blksToAttack |-> <<>>, k |-> 0, noMatch |-> FALSE, trials |-> 0]

---------------------------------------------------------------------------
(* findECBBlockSizeAndSuffixLength, one oracle query per step *)

\* suffixLength = cipherLen - i, mutated: the probe count is off by one
SuffixLengthOffByOne(cipherLen, i) == cipherLen - (i - 1)

\* suffixLength = cipherLen - i
SuffixLength(cipherLen, i) == cipherLen - i

\* cipherLen = len(oracle([]byte{})), then the loop starts at i = 1
ProbeStart ==
    /\ pc = "call"
    /\ atk' = [atk EXCEPT !.cipherLen = Len(ECBOracle(<<>>)), !.i = 1]
    /\ pc' = "probe"
    /\ UNCHANGED <<input, output, cipherText>>

\* one iteration of for i := 1; ; i++
ProbeStep ==
    /\ pc = "probe"
    /\ LET nextCipherLen == Len(ECBOracle(Zeros(atk.i)))
       IN  IF nextCipherLen > atk.cipherLen
           THEN /\ atk' = [atk EXCEPT !.blkSize = nextCipherLen - atk.cipherLen,
                                      !.suffixLength = SuffixLength(atk.cipherLen, atk.i)]
                /\ pc' = "probed"
           ELSE /\ atk' = [atk EXCEPT !.i = atk.i + 1]
                /\ pc' = "probe"
    /\ UNCHANGED <<input, output, cipherText>>

---------------------------------------------------------------------------
(* Specification SpecProbe: findECBBlockSizeAndSuffixLength against oracles *)
(* hiding 0..MaxHiddenLen bytes before and after the attacker's input       *)

MaxHiddenLen == 17

InitProbe ==
    /\ pc = "call"
    /\ \E p \in 0..MaxHiddenLen, n \in 0..MaxHiddenLen :
          input = [key |-> TestKey, prefix |-> Pattern(1, 1, p), secret |-> Pattern(65, 1, n)]
    /\ output = "none"
    /\ cipherText = <<>>
    /\ atk = NewAtk("findECBBlockSizeAndSuffixLength", "withPrefix")

NextProbe == ProbeStart \/ ProbeStep

SpecProbe == InitProbe /\ [][NextProbe]_vars

\* C6: against an oracle hiding n bytes in total (any n >= 0, multiples of
\* the block size included) findECBBlockSizeAndSuffixLength ends, within one
\* block of probe bytes, with (blkSize, suffixLength) = (16, n); the first
\* increase of the output length happens at i = 16 - n mod 16.
C6_ProbeFindsBlockSizeAndHiddenLen ==
    LET n == Len(input.prefix) + Len(input.secret)
    IN  /\ pc = "probe" => atk.i \in 1..BlockSize /\ atk.i <= BlockSize - (n % BlockSize)
        /\ pc = "probed" => /\ atk.blkSize = BlockSize
                            /\ atk.suffixLength = n
                            /\ atk.i = BlockSize - (n % BlockSize)
                            /\ atk.cipherLen - atk.i = n

\* the probe has finished against an oracle hiding exactly two blocks
C6_Witness ==
    /\ pc = "probed"
    /\ Len(input.prefix) + Len(input.secret) = 2 * BlockSize
    /\ atk.suffixLength = 2 * BlockSize
    /\ atk.i = BlockSize

---------------------------------------------------------------------------
(* byteAtTimeAtk (challenge 12) *)

\* makeBlockDict, mutated: blkDict[size] is size + 1 zero bytes
makeBlockDictOneMore(blkSize) == [sz \in 1..blkSize |-> Zeros(sz)]

\* makeBlockDict(blkSize): blkDict[size] is size zero bytes, size = 0..blkSize-1
makeBlockDict(blkSize) == [sz \in 1..blkSize |-> Zeros(sz - 1)]

\* makeBlockCipherTextCache(blkDict, oracle)
makeBlockCipherTextCache(blkDict) == [j \in 1..Len(blkDict) |-> ECBOracle(blkDict[j])]

\* the oracle queries of makeBlockCipherTextCache, in order: the length of
\* the filler of each
cacheQueryLens(blkDict) == [j \in 1..Len(blkDict) |-> Len(blkDict[j])]

\* the number of trial values of guessByte's loop: for i := range 255
GuessTrials == 255

\* the loop of guessByte over the trial values lo..hi in ascending order,
\* ending at the first match; -1 stands for reaching the panic after the
\* loop.  (The range is halved at each level only to keep the evaluation
\* shallow: the trials are still made in ascending order.)
RECURSIVE guessByteLoop(_, _, _, _, _, _)
guessByteLoop(forgedBlk, targetBlk, blkStart, blkEnd, lo, hi) ==
    IF lo > hi THEN -1
    ELSE IF lo = hi
    THEN LET forged == [forgedBlk EXCEPT ![Len(forgedBlk)] = lo % ByteRange]
             cText  == ECBOracle(forged)
         IN  IF Slice(cText, blkStart, blkEnd) = targetBlk THEN lo % ByteRange ELSE -1
    ELSE LET mid   == (lo + hi) \div 2
             first == guessByteLoop(forgedBlk, targetBlk, blkStart, blkEnd, lo, mid)
         IN  IF first # -1 THEN first
             ELSE guessByteLoop(forgedBlk, targetBlk, blkStart, blkEnd, mid + 1, hi)

\* guessByte(forgedBlk, targetBlk, blkIdx, ECBOracle)
guessByte(forgedBlk, targetBlk, blkIdx) ==
    guessByteLoop(forgedBlk, targetBlk, blkIdx * Len(targetBlk),
                  blkIdx * Len(targetBlk) + Len(targetBlk), 0, GuessTrials - 1)

\* guessByte / guessByte2 reached the panic after the loop, mutated: the
\* value after the loop is returned to the caller
GuessPanickedNever(guessedByte) == FALSE

\* guessByte / guessByte2 reached the panic after the loop
GuessPanicked(guessedByte) == guessedByte = -1

\* if len(secret) == secretLen, mutated: one byte too late
RecoveredAllLate(recovered, secretLen) == Len(recovered) = secretLen + 1

\* if len(secret) == secretLen
RecoveredAll(recovered, secretLen) == Len(recovered) = secretLen

\* byteAtTimeAtk after the probe: the two checks of the oracle, blkDict,
\* cipherTextCache, nSecretBlks, and the entry of the outer loop
AtkSetup ==
    /\ pc = "probed"
    /\ atk.fn = "byteAtTimeAtk"
    /\ IF atk.blkSize # BlockSize
       THEN /\ output' = [err |-> TRUE, data |-> <<>>]
            /\ pc' = "done"
            /\ atk' = atk
       ELSE IF ~detectECB(ECBOracle(Zeros(atk.blkSize * 2)))
       THEN /\ output' = [err |-> TRUE, data |-> <<>>]
            /\ pc' = "done"
            /\ atk' = atk
       ELSE LET nSecretBlks == (atk.suffixLength + atk.blkSize - 1) \div atk.blkSize
            IN  /\ atk' = [atk EXCEPT
                              !.cipherTextCache =
                                  makeBlockCipherTextCache(makeBlockDict(atk.blkSize)),
                              !.cacheQueries = cacheQueryLens(makeBlockDict(atk.blkSize)),
                              !.nSecretBlks = nSecretBlks,
                              !.secret = <<>>,
                              !.blkIdx = 0,
                              !.size = atk.blkSize - 1]
                \* with no block to attack the loops are skipped: panic (line 174)
                /\ pc' = IF nSecretBlks = 0 THEN "panic" ELSE "guess"
                /\ output' = output
    /\ UNCHANGED <<input, cipherText>>

\* forgedBlk without the slot of the trial byte
forgeBlkNoTrialSlot(knownBytes, secret) == knownBytes \o secret

\* forgedBlk of byteAtTimeAtk: the filler, the bytes recovered so far and one
\* more byte, zero until guessByte writes its trials there
forgeBlk(knownBytes, secret) == knownBytes \o secret \o <<0>>

\* one iteration of the inner loop of byteAtTimeAtk: a guessByte call, the
\* append, the termination test and the loop increments
AtkGuess ==
    /\ pc = "guess"
    /\ atk.fn = "byteAtTimeAtk"
    /\ LET knownBytes  == At(makeBlockDict(atk.blkSize), atk.size)
           forgedBlk   == forgeBlk(knownBytes, atk.secret)
           blkStart    == atk.blkIdx * atk.blkSize
           blkEnd      == blkStart + atk.blkSize
           targetBlk   == Slice(At(atk.cipherTextCache, atk.size), blkStart, blkEnd)
           guessedByte == guessByte(forgedBlk, targetBlk, atk.blkIdx)
           recovered   == Append(atk.secret, guessedByte)
           call        == [known |-> Len(atk.secret), size |-> atk.size,
                           blkIdx |-> atk.blkIdx, forgedLen |-> Len(forgedBlk),
                           forged |-> Slice(forgedBlk, 0, Len(forgedBlk) - 1),
                           target |-> targetBlk]
           logged      == [atk EXCEPT !.guessCalls = Append(atk.guessCalls, call),
                                      !.noMatch = (guessedByte = -1),
                                      !.trials = IF guessedByte = -1 THEN GuessTrials
                                                 ELSE guessedByte + 1]
       IN  IF GuessPanicked(guessedByte)
           THEN /\ pc' = "panic"
                /\ atk' = logged
                /\ output' = output
           ELSE IF RecoveredAll(recovered, atk.suffixLength)
           THEN /\ pc' = "done"
                /\ atk' = [logged EXCEPT !.secret = recovered]
                /\ output' = [err |-> FALSE, data |-> recovered]
           ELSE IF atk.size > 0
           THEN /\ pc' = "guess"
                /\ atk' = [logged EXCEPT !.secret = recovered, !.size = atk.size - 1]
                /\ output' = output
           ELSE IF atk.blkIdx + 1 < atk.nSecretBlks
           THEN /\ pc' = "guess"
                /\ atk' = [logged EXCEPT !.secret = recovered,
                                         !.blkIdx = atk.blkIdx + 1,
                                         !.size = atk.blkSize - 1]
                /\ output' = output
           ELSE /\ pc' = "panic"
                /\ atk' = [logged EXCEPT !.secret = recovered]
                /\ output' = output
    /\ UNCHANGED <<input, cipherText>>

---------------------------------------------------------------------------
(* Specification SpecByteAtk: byteAtTimeAtk against the prefix-free oracle *)

MaxSecretLen == 17

\* the secrets: letters, bytes running through 0xFF, zero bytes (the filler
\* value), bytes of value 1 (a padding value)
SecretPatterns == {<<65, 1>>, <<250, 1>>, <<0, 0>>, <<1, 0>>}

InitByteAtk ==
    /\ pc = "call"
    /\ \E n \in 0..MaxSecretLen, sp \in SecretPatterns :
          input = [key |-> TestKey, prefix |-> <<>>, secret |-> Pattern(sp[1], sp[2], n)]
    /\ output = "none"
    /\ cipherText = <<>>
    /\ atk = NewAtk("byteAtTimeAtk", "withSecret")

NextByteAtk == ProbeStart \/ ProbeStep \/ AtkSetup \/ AtkGuess

SpecByteAtk == InitByteAtk /\ [][NextByteAtk]_vars

\* C1: for every non-empty secret S (bytes of any value 0..255, any length)
\* byteAtTimeAtk ends by returning S byte for byte.
C1_ByteAtTimeRecoversSecret ==
    (pc \in {"done", "panic"} /\ Len(input.secret) > 0)
        => (pc = "done" /\ output = [err |-> FALSE, data |-> input.secret])

\* C2: byteAtTimeAtk returns exactly secretLen bytes (secretLen as measured
\* by findECBBlockSizeAndSuffixLength); every guessByte call is made with
\* fewer than secretLen bytes recovered (the j-th call with j-1 bytes), so
\* none follows the secretLen-th byte; and the target block of every call
\* ends within filler || secret: it holds no PKCS7 padding byte.
C2_StopsAtSecretLen ==
    atk.fn = "byteAtTimeAtk" =>
        /\ (pc = "done" /\ ~output.err) =>
               /\ Len(output.data) = atk.suffixLength
               /\ Len(atk.guessCalls) = atk.suffixLength
        /\ \A j \in 1..Len(atk.guessCalls) :
               LET c == atk.guessCalls[j]
               IN  /\ c.known = j - 1
                   /\ c.known < atk.suffixLength
                   /\ (c.blkIdx + 1) * BlockSize <= c.size + Len(input.secret)

\* the attack has returned a secret that fills one block exactly, after one
\* guessByte call per byte
C2_Witness ==
    /\ atk.fn = "byteAtTimeAtk"
    /\ pc = "done"
    /\ Len(input.secret) = BlockSize
    /\ Len(output.data) = BlockSize
    /\ Len(atk.guessCalls) = BlockSize

---------------------------------------------------------------------------
(* findPrefixLen (challenge 14), one value of fillBytes per step *)

\* Go's % (the sign of the result is that of the dividend)
GoMod(a, b) == IF a >= 0 THEN a % b ELSE -((-a) % b)

\* the inner loop of findPrefixLen: the first blkIdx in from..nBlks-1 whose
\* block equals the block before it; 0 when the loop ends without a match
RECURSIVE firstRepeatedBlk(_, _, _, _)
firstRepeatedBlk(cText, blkSize, blkIdx, nBlks) ==
    IF ~(blkIdx < nBlks) THEN 0
    ELSE IF Slice(cText, (blkIdx - 1) * blkSize, blkIdx * blkSize)
                = Slice(cText, blkIdx * blkSize, blkIdx * blkSize + blkSize)
    THEN blkIdx
    ELSE firstRepeatedBlk(cText, blkSize, blkIdx + 1, nBlks)

\* byteAtTimeAtkWithPrefix after its probe: findPrefixLen(blkSize, ecbOracle)
\* is entered, fillBytes := blkSize * 2
FindPrefixStart ==
    /\ pc = "probed"
    /\ atk.fn \in {"findPrefixLen", "byteAtTimeAtkWithPrefix"}
    /\ atk' = [atk EXCEPT !.fillBytes = atk.blkSize * 2]
    /\ pc' = "findPrefix"
    /\ UNCHANGED <<input, output, cipherText>>

\* one iteration of for fillBytes := blkSize * 2; ; fillBytes++
FindPrefixStep ==
    /\ pc = "findPrefix"
    /\ LET cText  == ECBOracle(Zeros(atk.fillBytes))
           nBlks  == Len(cText) \div atk.blkSize
           blkIdx == firstRepeatedBlk(cText, atk.blkSize, 1, nBlks)
       IN  IF blkIdx # 0
           THEN LET fillBytes   == atk.fillBytes - atk.blkSize * 2
                    randStrBlks == blkIdx - 1
                IN  /\ atk' = [atk EXCEPT !.prefixLen = randStrBlks * atk.blkSize - fillBytes,
                                          !.blkIdx = blkIdx]
                    /\ pc' = "prefixFound"
           ELSE /\ atk' = [atk EXCEPT !.fillBytes = atk.fillBytes + 1]
                /\ pc' = "findPrefix"
    /\ UNCHANGED <<input, output, cipherText>>

---------------------------------------------------------------------------
(* Specification SpecFindPrefix: the probe and findPrefixLen against        *)
(* ecbEncryptionOracleWithPrefix, for every prefix length 0..100            *)

MaxRandPrefixLen == 100

MaxShortSecretLen == 2

\* a random prefix; "endsInFiller" is a random prefix whose last byte
\* happens to be 0x00, the filler byte of the attack
PrefixKinds == {"random", "endsInFiller"}

MakePrefix(kind, p) ==
    IF kind = "random" \/ p = 0 THEN Pattern(1, 1, p)
    ELSE Pattern(1, 1, p - 1) \o <<0>>

InitFindPrefix ==
    /\ pc = "call"
    /\ \E p \in 0..MaxRandPrefixLen, kind \in PrefixKinds, n \in 0..MaxShortSecretLen :
          input = [key |-> TestKey, prefix |-> MakePrefix(kind, p),
                   secret |-> Pattern(65, 1, n)]
    /\ output = "none"
    /\ cipherText = <<>>
    /\ atk = NewAtk("findPrefixLen", "withPrefix")

NextFindPrefix == ProbeStart \/ ProbeStep \/ FindPrefixStart \/ FindPrefixStep

SpecFindPrefix == InitFindPrefix /\ [][NextFindPrefix]_vars

\* C4: for every hidden prefix of length 0..100, bytes of any value (a last
\* byte 0x00 included), findPrefixLen returns exactly len(prefix).
C4_FindPrefixLenExact ==
    pc = "prefixFound" => atk.prefixLen = Len(input.prefix)

---------------------------------------------------------------------------
(* byteAtTimeAtk2 (challenge 12, second version) *)

\* bytesToChunks(data, chunkSize): [err, chunks]
bytesToChunks(data, chunkSize) ==
    IF Len(data) = 0 THEN [err |-> TRUE, chunks |-> <<>>]
    ELSE IF chunkSize <= 0 THEN [err |-> TRUE, chunks |-> <<>>]
    ELSE IF Len(data) % chunkSize # 0 THEN [err |-> TRUE, chunks |-> <<>>]
    ELSE [err |-> FALSE,
          chunks |-> [c \in 1..(Len(data) \div chunkSize) |->
                         Slice(data, (c - 1) * chunkSize, (c - 1) * chunkSize + chunkSize)]]

\* makeCipherTexts(blkSize, oracle): [err, cipherTexts]
makeCipherTexts(blkSize) ==
    LET chunked == [j \in 1..blkSize |->
                       bytesToChunks(ECBOracle(Zeros(blkSize - (j - 1) - 1)), blkSize)]
    IN  IF blkSize <= 0 THEN [err |-> TRUE, cipherTexts |-> <<>>]
        ELSE IF \E j \in 1..blkSize : chunked[j].err
        THEN [err |-> TRUE, cipherTexts |-> <<>>]
        ELSE [err |-> FALSE, cipherTexts |-> [j \in 1..blkSize |-> chunked[j].chunks]]

RECURSIVE minChunks(_, _, _)
minChunks(blocks, j, chunksPerBlk) ==
    IF j > Len(blocks) THEN chunksPerBlk
    ELSE minChunks(blocks, j + 1, Min(chunksPerBlk, Len(blocks[j])))

\* the loops for i := range chunksPerBlk { for j := range len(blocks) } of
\* transposeAndFlattenBlocks from (i, j) on: the chunks appended to result
RECURSIVE transposeLoop(_, _, _, _)
transposeLoop(blocks, chunksPerBlk, i, j) ==
    IF i >= chunksPerBlk THEN <<>>
    ELSE IF j = Len(blocks) THEN transposeLoop(blocks, chunksPerBlk, i + 1, 0)
    ELSE <<At(At(blocks, j), i)>> \o transposeLoop(blocks, chunksPerBlk, i, j + 1)

\* transposeAndFlattenBlocks, mutated: the two loops are swapped, the chunks
\* of one block stay together
flattenBlocksUntransposed(blocks) ==
    LET chunksPerBlk == minChunks(blocks, 1, Len(blocks[1]))
    IN  [r \in 1..(chunksPerBlk * Len(blocks)) |->
            At(At(blocks, (r - 1) \div chunksPerBlk), (r - 1) % chunksPerBlk)]

\* transposeAndFlattenBlocks(blocks)
transposeAndFlattenBlocks(blocks) ==
    LET chunksPerBlk == minChunks(blocks, 1, Len(blocks[1]))
    IN  transposeLoop(blocks, chunksPerBlk, 0, 0)

\* the number of trial values of guessByte2's loop: for i := range 255
GuessTrials2 == 255

\* guessByte2(prefix, targetBlk, oracle); -1 stands for the panic
guessByte2(prefix, targetBlk) ==
    LET blkSize   == Len(targetBlk)
        forgedBlk == prefix \o Zeros(blkSize - Len(prefix))
    IN  guessByteLoop(forgedBlk, targetBlk, 0, blkSize, 0, GuessTrials2 - 1)

\* byteAtTimeAtk2 after the probe: the two checks of the oracle,
\* makeCipherTexts, transposed, blksToAttack and the initial secret
Atk2Setup ==
    /\ pc = "probed"
    /\ atk.fn = "byteAtTimeAtk2"
    /\ IF atk.blkSize # BlockSize
       THEN /\ output' = [err |-> TRUE, data |-> <<>>]
            /\ pc' = "done"
            /\ atk' = atk
       ELSE IF ~detectECB(ECBOracle(Zeros(atk.blkSize * 2)))
       THEN /\ output' = [err |-> TRUE, data |-> <<>>]
            /\ pc' = "done"
            /\ atk' = atk
       ELSE LET made == makeCipherTexts(atk.blkSize)
            IN  IF made.err
                THEN /\ output' = [err |-> TRUE, data |-> <<>>]
                     /\ pc' = "done"
                     /\ atk' = atk
                ELSE LET transposed == transposeAndFlattenBlocks(made.cipherTexts)
                     IN  IF atk.suffixLength > Len(transposed)
                         THEN /\ output' = output
                              /\ pc' = "panic"
                              /\ atk' = atk
                         ELSE /\ atk' = [atk EXCEPT
                                           !.blksToAttack = Slice(transposed, 0, atk.suffixLength),
                                           !.secret = Zeros(atk.blkSize - 1),
                                           !.k = 0]
                              /\ IF atk.suffixLength = 0
                                 THEN /\ output' = [err |-> FALSE, data |-> <<>>]
                                      /\ pc' = "done"
                                 ELSE /\ output' = output
                                      /\ pc' = "guess2"
    /\ UNCHANGED <<input, cipherText>>

\* one iteration of for _, blk := range blksToAttack, and the return after
\* the last one
Atk2Guess ==
    /\ pc = "guess2"
    /\ LET blk         == At(atk.blksToAttack, atk.k)
           prefix      == Slice(atk.secret, Len(atk.secret) - (atk.blkSize - 1), Len(atk.secret))
           guessedByte == guessByte2(prefix, blk)
           secret      == Append(atk.secret, guessedByte)
       IN  IF GuessPanicked(guessedByte)
           THEN /\ pc' = "panic"
                /\ atk' = [atk EXCEPT !.noMatch = (guessedByte = -1),
                                      !.trials = GuessTrials2]
                /\ output' = output
           ELSE /\ atk' = [atk EXCEPT !.secret = secret, !.k = atk.k + 1,
                                      !.noMatch = (guessedByte = -1),
                                      !.trials = guessedByte + 1]
                /\ IF atk.k + 1 = Len(atk.blksToAttack)
                   THEN /\ output' = [err |-> FALSE,
                                      data |-> Slice(secret, atk.blkSize - 1, Len(secret))]
                        /\ pc' = "done"
                   ELSE /\ output' = output
                        /\ pc' = "guess2"
    /\ UNCHANGED <<input, cipherText>>

---------------------------------------------------------------------------
(* byteAtTimeAtkWithPrefix (challenge 14) *)

\* fillBytesAfterPrefix = blkSize - prefixLen%blkSize, mutated: one byte less
FillBytesAfterPrefixOffByOne(blkSize, prefixLen) ==
    blkSize - 1 - GoMod(prefixLen, blkSize)

\* fillBytesAfterPrefix = blkSize - prefixLen%blkSize
FillBytesAfterPrefix(blkSize, prefixLen) == blkSize - GoMod(prefixLen, blkSize)

\* byteAtTimeAtkWithPrefix after findPrefixLen: fillBytesAfterPrefix, the
\* wrapperOracle closure, and the call byteAtTimeAtk2(wrapperOracle)
WrapOracle ==
    /\ pc = "prefixFound"
    /\ atk.fn = "byteAtTimeAtkWithPrefix"
    /\ atk' = [NewAtk("byteAtTimeAtk2", "wrapper") EXCEPT
                 !.prefixLen = atk.prefixLen,
                 !.fillBytesAfterPrefix = FillBytesAfterPrefix(atk.blkSize, atk.prefixLen)]
    /\ pc' = "call"
    /\ UNCHANGED <<input, output, cipherText>>

---------------------------------------------------------------------------
(* Specification SpecAtkWithPrefix: byteAtTimeAtkWithPrefix against          *)
(* ecbEncryptionOracleWithPrefix                                            *)

MaxAtkPrefixLen == 17

MaxAtkSecretLen == 2

AtkSecretLens == (0..MaxAtkSecretLen) \cup {BlockSize + 1}

AtkSecretPatterns == {<<65, 1>>, <<254, 1>>}

InitAtkWithPrefix ==
    /\ pc = "call"
    /\ \E p \in 0..MaxAtkPrefixLen, kind \in PrefixKinds,
          n \in AtkSecretLens, sp \in AtkSecretPatterns :
          input = [key |-> TestKey, prefix |-> MakePrefix(kind, p),
                   secret |-> Pattern(sp[1], sp[2], n)]
    /\ output = "none"
    /\ cipherText = <<>>
    /\ atk = NewAtk("byteAtTimeAtkWithPrefix", "withPrefix")

NextAtkWithPrefix ==
    \/ ProbeStart
    \/ ProbeStep
    \/ FindPrefixStart
    \/ FindPrefixStep
    \/ WrapOracle
    \/ Atk2Setup
    \/ Atk2Guess

SpecAtkWithPrefix == InitAtkWithPrefix /\ [][NextAtkWithPrefix]_vars

\* C5: for every secret S behind a random prefix of unknown length,
\* byteAtTimeAtkWithPrefix ends by returning S byte for byte.
C5_AtkWithPrefixRecoversSecret ==
    (pc \in {"done", "panic"} /\ atk.fn = "byteAtTimeAtk2")
        => (pc = "done" /\ output = [err |-> FALSE, data |-> input.secret])

---------------------------------------------------------------------------
(* CBC padding oracle attack (challenge 17) *)

\* cpbytes.ToChunks(data, chunkSize): [err, chunks]
ToChunks(data, chunkSize) ==
    IF Len(data) = 0 THEN [err |-> TRUE, chunks |-> <<>>]
    ELSE IF chunkSize <= 0 THEN [err |-> TRUE, chunks |-> <<>>]
    ELSE IF Len(data) % chunkSize # 0 THEN [err |-> TRUE, chunks |-> <<>>]
    ELSE [err |-> FALSE,
          chunks |-> [c \in 1..(Len(data) \div chunkSize) |->
                         Slice(data, (c - 1) * chunkSize, (c - 1) * chunkSize + chunkSize)]]

\* encryptOracle of newPaddingOracleAtkTools: it ignores its argument and
\* encrypts the chosen plain text under the hidden IV and key: [err, data]
encryptOracle(ignored) == encryptCBC(input.iv, input.plainText, input.key)

\* decryptOracle of newPaddingOracleAtkTools: the IV is the first block of
\* its argument: [err, data] (the closure panics on err)
decryptOracle(toDecrypt) ==
    decryptCBC(Slice(toDecrypt, 0, BlockSize),
               Slice(toDecrypt, BlockSize, Len(toDecrypt)), input.key)

\* validatePadding(plainText): hasValidPad
validatePadding(plainText) == ~RemovePKCS7(plainText).err

\* the loop for b := range 256 of paddingOracleAtkBlk over the values lo..hi
\* in ascending order: the first b whose forged IV gives a valid padding,
\* -1 when the loop ends without the break.  (The range is halved at each
\* level only to keep the evaluation shallow.)
RECURSIVE firstValidPad(_, _, _, _, _)
firstValidPad(iv, guessIdx, cipherTextBlk, lo, hi) ==
    IF lo > hi THEN -1
    ELSE IF lo = hi
    THEN LET toDecrypt          == [iv EXCEPT ![guessIdx + 1] = lo] \o cipherTextBlk
             forgedPlainTextBlk == decryptOracle(toDecrypt).data
         IN  IF validatePadding(forgedPlainTextBlk) THEN lo ELSE -1
    ELSE LET mid   == (lo + hi) \div 2
             first == firstValidPad(iv, guessIdx, cipherTextBlk, lo, mid)
         IN  IF first # -1 THEN first
             ELSE firstValidPad(iv, guessIdx, cipherTextBlk, mid + 1, hi)

\* the adjustment loop, mutated: for v := blkSize - 1; v > guessIdx; v--
adjustIVAboveGuessIdx(iv, guessIdx, padBytes) ==
    [v \in 1..Len(iv) |->
        IF v - 1 > guessIdx
        THEN XorTab[iv[v]][XorTab[padBytes % ByteRange][(padBytes + 1) % ByteRange]]
        ELSE iv[v]]

\* the loop for v := blkSize - 1; v >= guessIdx; v-- of paddingOracleAtkBlk
adjustIV(iv, guessIdx, padBytes) ==
    [v \in 1..Len(iv) |->
        IF v - 1 >= guessIdx
        THEN XorTab[iv[v]][XorTab[padBytes % ByteRange][(padBytes + 1) % ByteRange]]
        ELSE iv[v]]

\* the local variables of cbcPaddingOracleAtk and of the paddingOracleAtkBlk
\* call it is in; of the last round run: b is the trial value at the break
\* (-1 when the loop over b ended without it) and acceptedIV the IV when
\* the loop over b ended, before the adjustment; missed counts the rounds whose loop over b ended without the break
NewPadAtk(prevBlk, cipherTextBlks) ==
    [fn |-> "cbcPaddingOracleAtk",
     prevBlk |-> prevBlk, cipherTextBlks |-> cipherTextBlks,
     plainText |-> <<>>, blk |-> 0,
     iv |-> Zeros(BlockSize), recoveredBlk |-> Zeros(BlockSize), padBytes |-> 1,
     b |-> -1, acceptedIV |-> Zeros(BlockSize), missed |-> 0]

\* cbcPaddingOracleAtk up to its first paddingOracleAtkBlk call
PadAtkStart ==
    /\ pc = "call"
    /\ atk.fn = "cbcPaddingOracleAtk"
    /\ LET encrypted == encryptOracle(<<>>)
           chunked   == ToChunks(encrypted.data, BlockSize)
       IN  IF encrypted.err
           THEN /\ pc' = "panic"
                /\ UNCHANGED <<output, cipherText, atk>>
           ELSE IF chunked.err
           THEN /\ pc' = "done"
                /\ output' = [err |-> TRUE, data |-> <<>>]
                /\ cipherText' = encrypted.data
                /\ atk' = atk
           ELSE /\ pc' = "round"
                /\ output' = output
                /\ cipherText' = encrypted.data
                /\ atk' = NewPadAtk(input.iv, chunked.chunks)
    /\ UNCHANGED input

\* one iteration of for padBytes := 1; padBytes <= blkSize; padBytes++
PadAtkRound ==
    /\ pc = "round"
    /\ LET guessIdx      == BlockSize - atk.padBytes
           cipherTextBlk == At(atk.cipherTextBlks, atk.blk)
           b             == firstValidPad(atk.iv, guessIdx, cipherTextBlk, 0, ByteRange - 1)
           tried         == [atk.iv EXCEPT ![guessIdx + 1] = IF b = -1 THEN ByteRange - 1 ELSE b]
           recoveredBlk  == IF b = -1 THEN atk.recoveredBlk
                            ELSE [atk.recoveredBlk EXCEPT
                                     ![guessIdx + 1] = XorTab[b][atk.padBytes % ByteRange]]
       IN  atk' = [atk EXCEPT !.iv = adjustIV(tried, guessIdx, atk.padBytes),
                              !.recoveredBlk = recoveredBlk,
                              !.padBytes = atk.padBytes + 1,
                              !.b = b,
                              !.acceptedIV = tried,
                              !.missed = IF b = -1 THEN atk.missed + 1 ELSE atk.missed]
    /\ pc' = IF atk.padBytes + 1 <= BlockSize THEN "round" ELSE "blkDone"
    /\ UNCHANGED <<input, output, cipherText>>

\* prevBlk = cipherTextBlk, mutated: prevBlk keeps its value
UpdatedPrevBlkStale(prevBlk, cipherTextBlk) == prevBlk

\* prevBlk = cipherTextBlk at the end of the loop body of cbcPaddingOracleAtk
UpdatedPrevBlk(prevBlk, cipherTextBlk) == cipherTextBlk

\* cbcPaddingOracleAtk after a paddingOracleAtkBlk call: the XOR with prevBlk,
\* the append, and the next block or the return
PadAtkNextBlk ==
    /\ pc = "blkDone"
    /\ LET cipherTextBlk == At(atk.cipherTextBlks, atk.blk)
           plainTextBlk  == Blocks(atk.prevBlk, atk.recoveredBlk)
           plainText     == atk.plainText \o plainTextBlk.data
       IN  IF plainTextBlk.err
           THEN /\ output' = [err |-> TRUE, data |-> <<>>]
                /\ pc' = "done"
                /\ atk' = atk
           ELSE /\ atk' = [atk EXCEPT !.plainText = plainText,
                                      !.prevBlk = UpdatedPrevBlk(atk.prevBlk, cipherTextBlk),
                                      !.blk = atk.blk + 1,
                                      !.iv = Zeros(BlockSize),
                                      !.recoveredBlk = Zeros(BlockSize),
                                      !.padBytes = 1,
                                      !.b = -1,
                                      !.acceptedIV = Zeros(BlockSize)]
                /\ IF atk.blk + 1 = Len(atk.cipherTextBlks)
                   THEN /\ output' = [err |-> FALSE, data |-> plainText]
                        /\ pc' = "done"
                   ELSE /\ output' = output
                        /\ pc' = "round"
    /\ UNCHANGED <<input, cipherText>>

---------------------------------------------------------------------------
(* Specification SpecPadAtk: cbcPaddingOracleAtk against the oracles of     *)
(* newPaddingOracleAtkTools                                                 *)

MaxPadAtkPlainLen == 1

PadAtkKeys == {TestKey, Pattern(7, 3, BlockSize)}

PadAtkIVs == {TestIV, Zeros(BlockSize), Pattern(18, 0, BlockSize)}

PadAtkPlainLens == (0..MaxPadAtkPlainLen) \cup {BlockSize}

PadAtkPlainPatterns == {<<65, 1>>, <<2, 0>>}

InitPadAtk ==
    /\ pc = "call"
    /\ \E key \in PadAtkKeys, iv \in PadAtkIVs,
          n \in PadAtkPlainLens, pp \in PadAtkPlainPatterns :
          input = [key |-> key, iv |-> iv, plainText |-> Pattern(pp[1], pp[2], n)]
    /\ output = "none"
    /\ cipherText = <<>>
    /\ atk = [fn |-> "cbcPaddingOracleAtk"]

NextPadAtk == PadAtkStart \/ PadAtkRound \/ PadAtkNextBlk

SpecPadAtk == InitPadAtk /\ [][NextPadAtk]_vars

\* C3: for every key, 16-byte IV and hidden plain text P, cbcPaddingOracleAtk
\* returns exactly pad(P), the CBC decryption of the oracle's cipher text
\* under the true IV, so that removing the padding from the result yields P.
C3_PadAtkRecoversPaddedPlainText ==
    pc = "done" =>
        /\ output = [err |-> FALSE, data |-> PKCS7(input.plainText, BlockSize)]
        /\ output.data = decryptCBC(input.iv, cipherText, input.key).data
        /\ RemovePKCS7(output.data) = [err |-> FALSE, data |-> input.plainText]

---------------------------------------------------------------------------
(* Specification SpecPad: PKCS7 for every size 1..255 of its uint8          *)
(* parameter, followed by RemovePKCS7 on its result                         *)

MaxPadSize == 255

MaxPadInputLen == 3

\* data bytes that can be mistaken for padding, or not
PadDataSample == {0, 1, 2, 255}

InitPad ==
    /\ pc = "call"
    /\ input \in [data : SeqsUpTo(PadDataSample, MaxPadInputLen), size : 1..MaxPadSize]
    /\ output = "none"
    /\ cipherText = <<>>
    /\ atk = [fn |-> "PKCS7", padded |-> <<>>]

CallPKCS7 ==
    /\ pc = "call"
    /\ atk.fn = "PKCS7"
    /\ atk' = [atk EXCEPT !.padded = PKCS7(input.data, input.size)]
    /\ pc' = "padded"
    /\ UNCHANGED <<input, output, cipherText>>

CallRemovePKCS7OnPadded ==
    /\ pc = "padded"
    /\ output' = RemovePKCS7(atk.padded)
    /\ pc' = "done"
    /\ UNCHANGED <<input, cipherText, atk>>

NextPad == CallPKCS7 \/ CallRemovePKCS7OnPadded

SpecPad == InitPad /\ [][NextPad]_vars

\* C11: for every data d and size s in 1..255, PKCS7(d, s) is d followed by
\* n bytes of value n, n = s - (len(d) mod s), 1 <= n <= s (a full block when
\* len(d) is a multiple of s); its length is a multiple of s; and
\* RemovePKCS7(PKCS7(d, s)) = d.
C11_PKCS7PadsAndRoundTrips ==
    pc \in {"padded", "done"} =>
        LET d      == input.data
            n      == input.size - (Len(d) % input.size)
            padded == atk.padded
        IN  /\ 1 <= n /\ n <= input.size
            /\ Len(padded) = Len(d) + n
            /\ SubSeq(padded, 1, Len(d)) = d
            /\ \A i \in (Len(d) + 1)..Len(padded) : padded[i] = n
            /\ Len(padded) % input.size = 0
            /\ pc = "done" => output = [err |-> FALSE, data |-> d]

\* data whose length is a multiple of the size got a full block of padding,
\* which RemovePKCS7 took off again
C11_Witness ==
    /\ pc = "done"
    /\ input = [data |-> <<2, 2>>, size |-> 2]
    /\ atk.padded = <<2, 2, 2, 2>>
    /\ output = [err |-> FALSE, data |-> <<2, 2>>]

---------------------------------------------------------------------------
(* Specification SpecOracles: the oracles of the attacks called in any      *)
(* order on one hidden key / prefix / secret / IV / plain text              *)

MaxOracleCalls == 3

OracleKinds == {"withSecret", "withPrefix", "wrapper", "encrypt", "decrypt"}

\* decryptOracle, mutated: iv = cipherText[:blkSize] assigns the captured IV
decryptOracleIVAssigned(toDecrypt) == Slice(toDecrypt, 0, BlockSize)

\* the IV captured by the closures after a decryptOracle call:
\* iv := cipherText[:blkSize] declares a local, the captured IV is not written
decryptOracleIV(toDecrypt) == input.iv

\* the argument slices the attacks pass to an oracle of the given kind
OracleArgs(kind) ==
    IF kind = "decrypt"
    THEN {iv \o Slice(encryptOracle(<<>>).data, 0, BlockSize) :
             iv \in {Zeros(BlockSize), Pattern(1, 0, BlockSize), input.iv}}
    ELSE {Zeros(0), Zeros(1), Zeros(BlockSize - 1) \o <<1>>}

\* the value an oracle of the given kind returns
OracleOut(kind, arg) ==
    CASE kind = "withSecret" -> oracleWithSecret(arg)
      [] kind = "withPrefix" -> oracleWithPrefix(arg)
      [] kind = "wrapper"    -> wrapperOracle(arg)
      [] kind = "encrypt"    -> encryptOracle(arg).data
      [] kind = "decrypt"    -> decryptOracle(arg).data

\* the caller's slice after the call: every oracle writes only to slices it
\* made itself (plainTextWithSecret, pp, forgedPlainText, and the slices made
\* by PKCS7, Blocks and the block cipher closures)
OracleArgAfter(kind, arg) ==
    CASE kind = "withSecret" -> Slice(arg \o input.secret, 0, Len(arg))
      [] kind = "withPrefix" -> Slice(input.prefix \o arg, Len(input.prefix),
                                      Len(input.prefix) + Len(arg))
      [] kind = "wrapper"    -> Slice(Zeros(atk.fillBytesAfterPrefix) \o arg,
                                      atk.fillBytesAfterPrefix,
                                      atk.fillBytesAfterPrefix + Len(arg))
      [] kind = "encrypt"    -> arg
      [] kind = "decrypt"    -> Slice(arg, 0, BlockSize) \o Slice(arg, BlockSize, Len(arg))

\* the closures' captured variables after the call
OracleHiddenAfter(kind, arg) ==
    IF kind = "decrypt" THEN [input EXCEPT !.iv = decryptOracleIV(arg)] ELSE input

InitOracles ==
    /\ pc = "call"
    /\ \E p \in {0, 1, BlockSize}, n \in {1, BlockSize} :
          /\ input = [key |-> TestKey, prefix |-> Pattern(1, 1, p),
                      secret |-> Pattern(65, 1, n),
                      iv |-> TestIV, plainText |-> Pattern(97, 1, n)]
          /\ atk = [fn |-> "oracles", prefixLen |-> p,
                    fillBytesAfterPrefix |-> BlockSize - GoMod(p, BlockSize),
                    calls |-> <<>>]
    /\ output = "none"
    /\ cipherText = <<>>

\* one call of one oracle
OracleCall ==
    /\ pc = "call"
    /\ Len(atk.calls) < MaxOracleCalls
    /\ \E kind \in OracleKinds :
          \E arg \in OracleArgs(kind) :
             /\ output' = OracleOut(kind, arg)
             /\ input' = OracleHiddenAfter(kind, arg)
             /\ atk' = [atk EXCEPT !.calls = Append(atk.calls,
                           [kind |-> kind, arg |-> arg,
                            argAfter |-> OracleArgAfter(kind, arg),
                            out |-> OracleOut(kind, arg)])]
    /\ UNCHANGED <<pc, cipherText>>

NextOracles == OracleCall

SpecOracles == InitOracles /\ [][NextOracles]_vars

C13_NoValidPadIsFatal ==
    (pc # "call" /\ atk.fn = "cbcPaddingOracleAtk" /\ atk.missed > 0)
        => (pc = "panic" /\ output = "none")

---------------------------------------------------------------------------
(* Specification SpecGuess: byteAtTimeAtk and byteAtTimeAtk2 against the    *)
(* same prefix-free oracle                                                  *)

MaxGuessSecretLen == 6

GuessSecretLens == (0..MaxGuessSecretLen) \cup {BlockSize + 1}

GuessSecretPatterns == {<<65, 1>>, <<250, 1>>}

InitGuess ==
    /\ pc = "call"
    /\ \E n \in GuessSecretLens, sp \in GuessSecretPatterns :
          input = [key |-> TestKey, prefix |-> <<>>, secret |-> Pattern(sp[1], sp[2], n)]
    /\ output = "none"
    /\ cipherText = <<>>
    /\ \E fn \in {"byteAtTimeAtk", "byteAtTimeAtk2"} : atk = NewAtk(fn, "withSecret")

NextGuess ==
    \/ ProbeStart
    \/ ProbeStep
    \/ AtkSetup
    \/ AtkGuess
    \/ Atk2Setup
    \/ Atk2Guess

SpecGuess == InitGuess /\ [][NextGuess]_vars

\* C14: when no trial byte gives a cipher text block equal to the target
\* block, byteAtTimeAtk and byteAtTimeAtk2 abort with a fatal condition: no
\* byte is appended to the recovered secret and no secret is returned.
C14_NoMatchIsFatal ==
    [][atk'.noMatch => (/\ pc' = "panic"
                        /\ output' = "none"
                        /\ atk'.secret = atk.secret)]_vars

\* byteAtTimeAtk2 recovered five bytes and found no match for the sixth (0xFF)
C14_Witness ==
    /\ atk.fn = "byteAtTimeAtk2"
    /\ atk.noMatch
    /\ pc = "panic"
    /\ Len(atk.secret) = (BlockSize - 1) + 5
    /\ input.secret[6] = 255

\* C15: for each secret byte position the loop of guessByte / guessByte2
\* gives the oracle trial bytes covering the whole range 0..255 (all 256
\* values) unless an earlier trial already matched.
C15_TrialsCoverByteRange ==
    (atk.fn \in {"byteAtTimeAtk", "byteAtTimeAtk2"} /\ atk.noMatch)
        => atk.trials = ByteRange

---------------------------------------------------------------------------
(* Specification SpecLenCheck: encryptCBC, decryptCBC and decryptECB called *)
(* with IVs and texts of every length on a grid, block multiples or not     *)

LenUnit == 8

MaxLenUnits == 6

CallLens == {u * LenUnit + d : u \in 0..MaxLenUnits, d \in {0, 1}}

LenCheckedFns == {"encryptCBC", "decryptCBC", "decryptECB"}

\* the value the call returns: [err, data]
CallReturn(fn, iv, text, key) ==
    CASE fn = "encryptCBC" -> encryptCBC(iv, text, key)
      [] fn = "decryptCBC" -> decryptCBC(iv, text, key)
      [] fn = "decryptECB" -> decryptECB(text, key)

\* the call panics: decryptCBC slices cipherText[:blkSize] after its guards
CallPanics(fn, iv, text, key) ==
    /\ fn = "decryptCBC"
    /\ Len(text) % Len(key) = 0
    /\ Len(iv) % Len(key) = 0
    /\ ValidKeyLen(key)
    /\ Len(text) < Len(key)

\* the number of calls of the block cipher made before the call returns
CallBlockOps(fn, iv, text, key) ==
    LET padded == PKCS7(text, BlockSize)
    IN  CASE fn = "encryptCBC" ->
               IF Len(iv) % Len(key) # 0 \/ ~ValidKeyLen(key) THEN 0
               ELSE IF Blocks(Slice(padded, 0, BlockSize), iv).err THEN 0
               ELSE (Len(padded) + BlockSize - 1) \div BlockSize
          [] fn = "decryptCBC" ->
               IF Len(text) % Len(key) # 0 \/ Len(iv) % Len(key) # 0 \/ ~ValidKeyLen(key)
               THEN 0
               ELSE IF Len(iv) # Len(key) THEN 1
               ELSE (Len(text) + Len(key) - 1) \div Len(key)
          [] fn = "decryptECB" ->
               IF Len(text) % Len(key) # 0 \/ ~ValidKeyLen(key) THEN 0
               ELSE (Len(text) + Len(key) - 1) \div Len(key)

InitLenCheck ==
    /\ pc = "call"
    /\ \E fn \in LenCheckedFns, key \in RoundTripKeys, ivLen \in CallLens, tLen \in CallLens :
          input = [fn |-> fn, key |-> key,
                   iv |-> IF fn = "decryptECB" THEN <<>> ELSE Pattern(5, 29, ivLen),
                   text |-> Pattern(65, 1, tLen)]
    /\ output = "none"
    /\ cipherText = <<>>
    /\ atk = NoAtk

CallLenChecked ==
    /\ pc = "call"
    /\ IF CallPanics(input.fn, input.iv, input.text, input.key)
       THEN /\ pc' = "panic"
            /\ output' = [err |-> FALSE, data |-> <<>>, blockOps |-> 0]
       ELSE LET r == CallReturn(input.fn, input.iv, input.text, input.key)
            IN  /\ pc' = "done"
                /\ output' = [err |-> r.err, data |-> r.data,
                              blockOps |-> CallBlockOps(input.fn, input.iv,
                                                        input.text, input.key)]
    /\ UNCHANGED <<input, cipherText, atk>>

NextLenCheck == CallLenChecked

SpecLenCheck == InitLenCheck /\ [][NextLenCheck]_vars

\* C16: encryptCBC, decryptCBC and decryptECB return an error (never a panic,
\* never a result) whenever the IV length or the cipher text length is not a
\* multiple of the cipher block size 16, before any block is encrypted or
\* decrypted.
C16_BadLengthsAreErrors ==
    LET badIV   == input.fn \in {"encryptCBC", "decryptCBC"} /\ Len(input.iv) % BlockSize # 0
        badText == input.fn \in {"decryptCBC", "decryptECB"} /\ Len(input.text) % BlockSize # 0
    IN  (pc \in {"done", "panic"} /\ (badIV \/ badText))
            => (pc = "done" /\ output.err /\ output.blockOps = 0)

---------------------------------------------------------------------------
(* Specification SpecWrapper: the wrapperOracle that byteAtTimeAtkWithPrefix *)
(* builds when prefixLen is the true length of the random prefix            *)

\* the slices given to the wrapper oracle
WrapperArgs == {Zeros(0), Zeros(1), Zeros(BlockSize - 1) \o <<7>>, Zeros(2 * BlockSize)}

InitWrapper ==
    /\ pc = "prefixFound"
    /\ \E p \in 0..MaxRandPrefixLen, kind \in PrefixKinds, n \in 0..MaxShortSecretLen :
          /\ input = [key |-> TestKey, prefix |-> MakePrefix(kind, p),
                      secret |-> Pattern(65, 1, n)]
          /\ atk = [NewAtk("byteAtTimeAtkWithPrefix", "withPrefix") EXCEPT
                      !.blkSize = BlockSize, !.prefixLen = p]
    /\ output = "none"
    /\ cipherText = <<>>

\* one call wrapperOracle(plainText)
WrapperQuery ==
    /\ pc = "call"
    /\ atk.oracle = "wrapper"
    /\ \E plainText \in WrapperArgs :
          /\ output' = [plainText |-> plainText, data |-> wrapperOracle(plainText)]
          /\ cipherText' = oracleWithPrefix(Zeros(atk.fillBytesAfterPrefix) \o plainText)
    /\ pc' = "queried"
    /\ UNCHANGED <<input, atk>>

NextWrapper == WrapOracle \/ WrapperQuery

SpecWrapper == InitWrapper /\ [][NextWrapper]_vars

\* C17: given the true prefix length p (0..100, multiples of the block size
\* included), the wrapper oracle returns for every input x exactly the output
\* of the prefix-free oracle ECB_k(pad(x || secret)): the number f of filler
\* bytes satisfies (p + f) mod blockSize = 0 and exactly the first p + f
\* output bytes are stripped.
C17_WrapperEqualsPrefixFreeOracle ==
    LET p == Len(input.prefix)
        f == atk.fillBytesAfterPrefix
    IN  /\ (pc \in {"call", "queried"} /\ atk.oracle = "wrapper")
               => (p + f) % BlockSize = 0
        /\ pc = "queried" =>
               /\ output.data = oracleWithSecret(output.plainText)
               /\ output.data = Slice(cipherText, p + f, Len(cipherText))

\* a prefix of two whole blocks got a whole block of filler, and a query of
\* one byte was answered
C17_Witness ==
    /\ pc = "queried"
    /\ Len(input.prefix) = 2 * BlockSize
    /\ atk.fillBytesAfterPrefix = BlockSize
    /\ output.plainText = <<0>>
    /\ Len(input.secret) = 2
    /\ Len(output.data) = BlockSize

\* C18: in findPrefixLen, whenever two consecutive output blocks are found
\* equal, both consist entirely of filler bytes and the first of them begins
\* at the first block boundary at or after the end of the hidden prefix; no
\* pair inside the prefix or straddling prefix/filler or filler/secret
\* matches first.
C18_EqualBlocksAreFiller ==
    (pc = "prefixFound" /\ atk.fn = "findPrefixLen") =>
        LET p        == Len(input.prefix)
            firstBlk == (atk.blkIdx - 1) * atk.blkSize
        IN  /\ firstBlk >= p
            /\ firstBlk + 2 * atk.blkSize <= p + atk.fillBytes
            /\ firstBlk = ((p + atk.blkSize - 1) \div atk.blkSize) * atk.blkSize

\* the intermediate block D = decryptBlock(cipherTextBlk) of the block that
\* paddingOracleAtkBlk is working on
IntermediateBlk == decrypter(input.key, At(atk.cipherTextBlks, atk.blk))

\* the round paddingOracleAtkBlk has just run
RoundRun == pc \in {"round", "blkDone"} /\ atk.fn = "cbcPaddingOracleAtk" /\ atk.padBytes > 1

\* C19: in paddingOracleAtkBlk, in every round padLen, when the loop accepts
\* a trial byte b, the final padLen bytes of workingIV XOR D all equal
\* padLen, so the recorded byte b XOR padLen equals D[16 - padLen]; also at
\* padLen = 1 when other bytes of D XOR workingIV form a longer valid padding.
C19_AcceptedTrialGivesPadLen ==
    (RoundRun /\ atk.b # -1) =>
        LET padLen   == atk.padBytes - 1
            guessIdx == BlockSize - padLen
            D        == IntermediateBlk
        IN  /\ \A pos \in guessIdx..(BlockSize - 1) :
                   XorTab[At(atk.acceptedIV, pos)][At(D, pos)] = padLen
            /\ At(atk.recoveredBlk, guessIdx) = At(D, guessIdx)

\* C20: in paddingOracleAtkBlk, after the adjustment of round padLen, when
\* the bytes recorded so far equal the intermediate block's bytes, every
\* solved position pos in 16-padLen..15 has workingIV[pos] XOR D[pos] =
\* padLen + 1, and the positions not yet solved are untouched by the
\* adjustment.
C20_AdjustedIVGivesNextPadLen ==
    LET padLen   == atk.padBytes - 1
        guessIdx == BlockSize - padLen
        D        == IntermediateBlk
    IN  (/\ RoundRun
         /\ \A pos \in guessIdx..(BlockSize - 1) : At(atk.recoveredBlk, pos) = At(D, pos))
            => /\ \A pos \in guessIdx..(BlockSize - 1) :
                      XorTab[At(atk.iv, pos)][At(D, pos)] = padLen + 1
               /\ \A pos \in 0..(guessIdx - 1) :
                      At(atk.iv, pos) = At(atk.acceptedIV, pos)

\* the second block of a two-block cipher text was recovered whole: after
\* round 16 every byte of the working IV XOR D is 17
C20_Witness ==
    /\ RoundRun
    /\ pc = "blkDone"
    /\ atk.blk = 1
    /\ atk.recoveredBlk = IntermediateBlk
    /\ Blocks(atk.iv, IntermediateBlk).data = [i \in 1..BlockSize |-> BlockSize + 1]

\* the block the recovered intermediate of block blk has to be XORed with:
\* the true IV before block 0, the cipher text block blk - 1 before block blk
TruePrevBlk(blk) ==
    IF blk = 0 THEN input.iv
    ELSE Slice(cipherText, (blk - 1) * BlockSize, blk * BlockSize)

\* C21: cbcPaddingOracleAtk processes every cipher text block in order with a
\* fresh all-zero working IV, XORs the recovered intermediate of block 0 with
\* the true IV and of block i > 0 with the unmodified cipher text block i-1,
\* and returns an output as long as the cipher text (the padding is kept);
\* the true IV and the cipher text blocks are never modified.
C21_BlocksInOrderWithTruePrevBlk ==
    [][/\ input' = input
       /\ pc # "call" => cipherText' = cipherText
       /\ pc' \in {"round", "blkDone", "done"} =>
              /\ atk'.cipherTextBlks = ToChunks(cipherText', BlockSize).chunks
              /\ Len(atk'.plainText) = atk'.blk * BlockSize
       /\ (pc' = "round" /\ pc # "round") =>
              /\ atk'.iv = Zeros(BlockSize)
              /\ atk'.padBytes = 1
              /\ atk'.blk < Len(atk'.cipherTextBlks)
       /\ pc = "blkDone" =>
              /\ atk'.blk = atk.blk + 1
              /\ atk'.plainText
                     = atk.plainText \o Blocks(TruePrevBlk(atk.blk), atk.recoveredBlk).data
       /\ pc' = "done" =>
              /\ atk'.blk = Len(atk'.cipherTextBlks)
              /\ output' = [err |-> FALSE, data |-> atk'.plainText]
              /\ Len(output'.data) = Len(cipherText')
      ]_vars

\* a two-block cipher text was attacked block by block and 32 bytes returned
C21_Witness ==
    /\ pc = "done"
    /\ atk.fn = "cbcPaddingOracleAtk"
    /\ Len(cipherText) = 2 * BlockSize
    /\ atk.blk = 2
    /\ Len(output.data) = 2 * BlockSize
    /\ atk.prevBlk = Slice(cipherText, BlockSize, 2 * BlockSize)

\* the trial values b of the loop for b := range 256 that make the
\* decryption oracle report a valid padding, the other IV bytes as given
ValidPadTrials(iv, guessIdx, cipherTextBlk) ==
    {b \in Byte :
        validatePadding(decryptOracle([iv EXCEPT ![guessIdx + 1] = b] \o cipherTextBlk).data)}

\* the trial values of the loop of guessByte / guessByte2 whose cipher text
\* block equals the target block
MatchingTrials(forgedBlk, targetBlk, blkStart, blkEnd) ==
    {t \in Byte :
        Slice(ECBOracle([forgedBlk EXCEPT ![Len(forgedBlk)] = t]), blkStart, blkEnd) = targetBlk}

\* C22: in every per-byte brute-force loop (here the loop over the IV byte of
\* paddingOracleAtkBlk) at most one of the 256 trial values satisfies the
\* match condition, so that accepting the first match in ascending order
\* gives the same result as accepting any match.
C22_AtMostOneTrialMatches ==
    RoundRun =>
        LET padLen == atk.padBytes - 1
            valid  == ValidPadTrials(atk.acceptedIV, BlockSize - padLen,
                                     At(atk.cipherTextBlks, atk.blk))
        IN  /\ Cardinality(valid) <= 1
            /\ \A b \in valid :
                   XorTab[b][padLen] = At(IntermediateBlk, BlockSize - padLen)

\* makeBlockCipherTextCache has run in the given record of locals
CacheBuilt(a) == a.fn = "byteAtTimeAtk" /\ a.cacheQueries # <<>>

\* C23: in byteAtTimeAtk the oracle is queried exactly once for each filler
\* length L in 0..blockSize-1 to obtain the target cipher texts, before any
\* guessing starts; every target block used later is a slice of that cached
\* output; the cache is never modified afterwards; and every query made
\* during guessing is filler(L) || recovered bytes || one trial byte.
C23_TargetsComeFromCache ==
    [][/\ CacheBuilt(atk') =>
              /\ atk'.cacheQueries = [j \in 1..BlockSize |-> j - 1]
              /\ \A L \in 0..(BlockSize - 1) :
                     At(atk'.cipherTextCache, L) = oracleWithSecret(Zeros(L))
              /\ ~CacheBuilt(atk) => atk'.guessCalls = <<>>
              /\ \A j \in 1..Len(atk'.guessCalls) :
                     LET c == atk'.guessCalls[j]
                     IN  /\ c.target = Slice(At(atk'.cipherTextCache, c.size),
                                             c.blkIdx * BlockSize,
                                             c.blkIdx * BlockSize + BlockSize)
                         /\ c.forged = Zeros(c.size) \o Slice(atk'.secret, 0, c.known)
                         /\ c.forgedLen = Len(c.forged) + 1
       /\ CacheBuilt(atk) =>
              /\ atk'.cipherTextCache = atk.cipherTextCache
              /\ atk'.cacheQueries = atk.cacheQueries
      ]_vars

\* a secret of 17 bytes was recovered with 17 guessByte calls on a cache of
\* 16 cipher texts
C23_Witness ==
    /\ atk.fn = "byteAtTimeAtk"
    /\ pc = "done"
    /\ Len(atk.cacheQueries) = BlockSize
    /\ Len(atk.guessCalls) = BlockSize + 1
    /\ atk.guessCalls[BlockSize + 1].blkIdx = 1
    /\ output.data = input.secret

\* C24: at every guessByte call of byteAtTimeAtk, with r bytes recovered so
\* far, blkIdx = r div blockSize and the filler length is
\* blockSize - 1 - (r mod blockSize); the forged input is exactly
\* (blkIdx + 1) * blockSize bytes long, so the trial byte is the last byte of
\* block blkIdx; the target is block blkIdx of the cached cipher text for the
\* same filler length; and the slice [blkIdx*blockSize, (blkIdx+1)*blockSize)
\* lies within the cached cipher text and within the forged query's.
C24_GuessCallLoopInvariant ==
    atk.fn = "byteAtTimeAtk" =>
        \A j \in 1..Len(atk.guessCalls) :
            LET c        == atk.guessCalls[j]
                r        == c.known
                blkEnd   == (c.blkIdx + 1) * BlockSize
                cached   == At(atk.cipherTextCache, c.size)
                queried  == oracleWithSecret(c.forged \o <<0>>)
            IN  /\ r = j - 1
                /\ c.blkIdx = r \div BlockSize
                /\ c.size = BlockSize - 1 - (r % BlockSize)
                /\ c.forgedLen = blkEnd
                /\ Len(c.forged) = blkEnd - 1
                /\ c.target = Slice(cached, c.blkIdx * BlockSize, blkEnd)
                /\ cached = oracleWithSecret(Zeros(c.size))
                /\ blkEnd <= Len(cached)
                /\ blkEnd <= Len(queried)

\* the first guessByte call of the second block was made: 16 bytes known,
\* filler of 15 bytes, forged input of 32 bytes
C24_Witness ==
    /\ atk.fn = "byteAtTimeAtk"
    /\ \E j \in 1..Len(atk.guessCalls) :
           /\ atk.guessCalls[j].known = BlockSize
           /\ atk.guessCalls[j].size = BlockSize - 1
           /\ atk.guessCalls[j].forgedLen = 2 * BlockSize

---------------------------------------------------------------------------
(* Specification SpecBench: BenchmarkByteAtTime, byteAtTimeAtk and then     *)
(* byteAtTimeAtk2 run against one oracle                                    *)

MaxBenchSecretLen == 2

\* short secrets, the empty one among them, and secrets of one block, one
\* block and a byte, and two blocks
BenchSecretLens == (0..MaxBenchSecretLen) \cup {BlockSize, BlockSize + 1, 2 * BlockSize}

BenchSecretPatterns == {<<65, 1>>, <<250, 1>>}

\* what a finished run of an attack gave: a panic, or the pair returned
Outcome ==
    IF pc = "panic"
    THEN [panic |-> TRUE, err |-> FALSE, data |-> <<>>]
    ELSE [panic |-> FALSE, err |-> output.err, data |-> output.data]

InitBench ==
    /\ pc = "call"
    /\ \E n \in BenchSecretLens, sp \in BenchSecretPatterns :
          input = [key |-> TestKey, prefix |-> <<>>,
                   secret |-> Pattern(sp[1], sp[2], n), results |-> <<>>]
    /\ output = "none"
    /\ cipherText = <<>>
    /\ atk = NewAtk("byteAtTimeAtk", "withSecret")

\* the first sub-benchmark is over; the second calls byteAtTimeAtk2 with the
\* same oracle
BenchNextRun ==
    /\ pc \in {"done", "panic"}
    /\ atk.fn = "byteAtTimeAtk"
    /\ input' = [input EXCEPT !.results = Append(@, Outcome)]
    /\ atk' = NewAtk("byteAtTimeAtk2", "withSecret")
    /\ pc' = "call"
    /\ output' = "none"
    /\ UNCHANGED cipherText

NextBench ==
    \/ ProbeStart
    \/ ProbeStep
    \/ AtkSetup
    \/ AtkGuess
    \/ BenchNextRun
    \/ Atk2Setup
    \/ Atk2Guess

SpecBench == InitBench /\ [][NextBench]_vars

\* C25: byteAtTimeAtk2 is equivalent to byteAtTimeAtk: against the same
\* oracle, for every secret (the empty one and those of a whole number of
\* blocks included), both give the same outcome, the same returned bytes or
\* a failure of both; and in byteAtTimeAtk2, transposed[k] is block k div 16
\* of the cipher text for the filler of 15 - k mod 16 bytes, transposed
\* having at least secretLen entries.
C25_Atk2EquivalentToAtk ==
    (atk.fn = "byteAtTimeAtk2" /\ pc \in {"guess2", "done", "panic"}) =>
        /\ pc \in {"done", "panic"} => Outcome = input.results[1]
        /\ LET transposed == transposeAndFlattenBlocks(makeCipherTexts(BlockSize).cipherTexts)
           IN  /\ Len(transposed) >= atk.suffixLength
               /\ \A k \in 0..(Len(transposed) - 1) :
                      At(transposed, k) =
                          Slice(oracleWithSecret(Zeros(BlockSize - 1 - (k % BlockSize))),
                                (k \div BlockSize) * BlockSize,
                                (k \div BlockSize) * BlockSize + BlockSize)

---------------------------------------------------------------------------
(* cpaes: CTR mode *)

\* toChunks(input, chunkSize): [err, chunks]; the whole chunks by
\* cpbytes.ToChunks, then the partial last chunk
toChunks(data, chunkSize) ==
    IF Len(data) % chunkSize = 0
    THEN ToChunks(data, chunkSize)
    ELSE LET fullBlks  == Len(data) \div chunkSize
             inputBlks == ToChunks(Slice(data, 0, fullBlks * chunkSize), chunkSize)
             lastBlk   == Slice(data, fullBlks * chunkSize, Len(data))
         IN  IF inputBlks.err THEN [err |-> TRUE, chunks |-> <<>>]
             ELSE [err |-> FALSE, chunks |-> Append(inputBlks.chunks, lastBlk)]

\* binary.LittleEndian.PutUint64: the 8 bytes written for v
RECURSIVE PutUint64(_, _)
PutUint64(v, nBytes) ==
    IF nBytes = 0 THEN <<>> ELSE <<v % ByteRange>> \o PutUint64(v \div ByteRange, nBytes - 1)

\* keystreamBlk of ctr: nonce and counter, 8 little-endian bytes each
keystreamBlk(nonce, counter) == PutUint64(nonce, 8) \o PutUint64(counter, 8)

\* the loop of ctr over inputBlks from index i, counter = i: [err, data]
RECURSIVE ctrLoop(_, _, _, _)
ctrLoop(inputBlks, key, nonce, i) ==
    IF i = Len(inputBlks) THEN [err |-> FALSE, data |-> <<>>]
    ELSE LET blk       == At(inputBlks, i)
             encrypted == encrypter(key, keystreamBlk(nonce, i))
             keystream == IF Len(blk) < BlockSize
                          THEN Slice(encrypted, 0, Len(blk)) ELSE encrypted
             outputBlk == Blocks(blk, keystream)
             rest      == ctrLoop(inputBlks, key, nonce, i + 1)
         IN  IF outputBlk.err \/ rest.err THEN [err |-> TRUE, data |-> <<>>]
             ELSE [err |-> FALSE, data |-> outputBlk.data \o rest.data]

\* ctr(input, key, nonce): [err, data]
ctr(data, key, nonce) ==
    IF Len(data) = 0 THEN [err |-> TRUE, data |-> <<>>]
    ELSE IF Len(key) % BlockSize # 0 THEN [err |-> TRUE, data |-> <<>>]
    ELSE LET inputBlks == toChunks(data, BlockSize)
         IN  IF inputBlks.err THEN [err |-> TRUE, data |-> <<>>]
             ELSE IF ~ValidKeyLen(key) THEN [err |-> TRUE, data |-> <<>>]
             ELSE ctrLoop(inputBlks.chunks, key, nonce, 0)

EncryptCTR(data, key, nonce) == ctr(data, key, nonce)

DecryptCTR(data, key, nonce) == ctr(data, key, nonce)

---------------------------------------------------------------------------
(* Specification SpecCTR: EncryptCTR, then DecryptCTR of what it returned   *)

MaxCTRInputLen == 3

\* short inputs, the empty one among them, and inputs around one and two
\* blocks
CTRInputLens ==
    (0..MaxCTRInputLen) \cup {BlockSize - 1, BlockSize, BlockSize + 1,
                              2 * BlockSize, 2 * BlockSize + 1}

\* nonces whose little-endian bytes differ in the first four positions
CTRNonces == {0, 1, 258, 16909060}

InitCTR ==
    /\ pc = "call"
    /\ \E n \in CTRInputLens, sp \in {<<65, 1>>, <<0, 0>>}, key \in RoundTripKeys,
          nonce \in CTRNonces :
          input = [x |-> Pattern(sp[1], sp[2], n), key |-> key, nonce |-> nonce]
    /\ output = "none"
    /\ cipherText = <<>>
    /\ atk = NoAtk

CallEncryptCTR ==
    /\ pc = "call"
    /\ output' = EncryptCTR(input.x, input.key, input.nonce)
    /\ cipherText' = output'.data
    /\ pc' = "encrypted"
    /\ UNCHANGED <<input, atk>>

CallDecryptCTR ==
    /\ pc = "encrypted"
    /\ output' = DecryptCTR(cipherText, input.key, input.nonce)
    /\ pc' = "done"
    /\ UNCHANGED <<input, cipherText, atk>>

NextCTR == CallEncryptCTR \/ CallDecryptCTR

SpecCTR == InitCTR /\ [][NextCTR]_vars

\* C26: CTR mode is its own inverse and keeps the length: for every
\* non-empty input x of any length (a multiple of 16 or not), key and nonce,
\* EncryptCTR returns len(x) bytes, block i being block i of x XOR the
\* encryption of (nonce, 8 bytes little-endian || counter i, 8 bytes
\* little-endian), and DecryptCTR of that gives x back; the empty input
\* returns an error.
C26_CTRInvolutionKeepsLength ==
    /\ pc = "encrypted" =>
           IF Len(input.x) = 0 THEN output.err
           ELSE /\ ~output.err
                /\ Len(output.data) = Len(input.x)
                /\ \A p \in 0..(Len(input.x) - 1) :
                       At(output.data, p) =
                           Xor(At(input.x, p),
                               At(AESEncryptBlock(input.key,
                                      PutUint64(input.nonce, 8) \o
                                      PutUint64(p \div BlockSize, 8)),
                                  p % BlockSize))
    /\ (pc = "done" /\ Len(input.x) > 0) =>
           (~output.err /\ output.data = input.x)

---------------------------------------------------------------------------
(* cpaes: the ECB cut-and-paste attack (challenge 13) *)

\* the byte strings of profileFor, cutAndPasteAtk and TestCutAndPasteAtk
EmailEq == <<101, 109, 97, 105, 108, 61>>                 \* "email="
UidRoleUser == <<38, 117, 105, 100, 61, 49, 48, 38, 114, 111, 108, 101, 61, 117, 115, 101, 114>>             \* "&uid=10&role=user"
User1 == <<102, 111, 111, 111, 111, 64, 98, 97, 114, 46, 99, 111, 109>>                     \* "foooo@bar.com"
User2Head == <<102, 111, 111, 111, 111, 64, 98, 97, 114, 46>>             \* "foooo@bar."
Admin == <<97, 100, 109, 105, 110>>                     \* "admin"
Ampersand == 38
EqualsSign == 61

\* bytes.Split(s, []byte{sep})
RECURSIVE SplitByte(_, _)
SplitByte(s, sep) ==
    IF \A i \in 1..Len(s) : s[i] # sep THEN <<s>>
    ELSE LET first == CHOOSE i \in 1..Len(s) :
                          s[i] = sep /\ \A j \in 1..(i - 1) : s[j] # sep
         IN  <<SubSeq(s, 1, first - 1)>> \o SplitByte(SubSeq(s, first + 1, Len(s)), sep)

\* profileFor(email): [panic, data]
profileFor(email) ==
    IF \E i \in 1..Len(email) : email[i] \in {Ampersand, EqualsSign}
    THEN [panic |-> TRUE, data |-> <<>>]
    ELSE [panic |-> FALSE, data |-> EmailEq \o email \o UidRoleUser]

\* parseProfile(cookie): [panic, profile], the map as a function from the keys
\* to the values, a later part overwriting an earlier one with the same key
parseProfile(cookie) ==
    LET parts == SplitByte(cookie, Ampersand)
        kv    == [p \in 1..Len(parts) |-> SplitByte(parts[p], EqualsSign)]
    IN  IF \E p \in 1..Len(parts) : Len(kv[p]) # 2
        THEN [panic |-> TRUE, profile |-> <<>>]
        ELSE [panic |-> FALSE,
              profile |-> [k \in {kv[p][1] : p \in 1..Len(parts)} |->
                              LET last == CHOOSE p \in 1..Len(parts) :
                                              /\ kv[p][1] = k
                                              /\ \A q \in (p + 1)..Len(parts) : kv[q][1] # k
                              IN  kv[last][2]]]

\* the oracles TestCutAndPasteAtk hands to cutAndPasteAtk
cutPasteEncOracle(plainText) == encryptECB(plainText, input.key)

cutPasteDecOracle(cText) == decryptECB(cText, input.key)

\* user2 of cutAndPasteAtk
User2 == User2Head \o PKCS7(Admin, BlockSize)

\* adminCipherText, mutated: the third block of cipherText2 is pasted
adminCipherTextThirdBlk(cipherText1, cipherText2) ==
    Slice(cipherText1, 0, 32) \o Slice(cipherText2, 32, 48)

\* adminCipherText := slices.Concat(cipherText1[:32], cipherText2[16:32])
adminCipherText(cipherText1, cipherText2) ==
    Slice(cipherText1, 0, 32) \o Slice(cipherText2, 16, 32)

NewCutPaste ==
    [fn |-> "cutAndPasteAtk", cipherText1 |-> <<>>, cipherText2 |-> <<>>,
     adminCipherText |-> <<>>, decrypted |-> <<>>]

\* cipherText1 = ECBEncOracle(profile1)
CutPasteProfile1 ==
    /\ pc = "call"
    /\ atk.fn = "cutAndPasteAtk"
    /\ LET profile1 == profileFor(User1)
           enc      == cutPasteEncOracle(profile1.data)
       IN  IF profile1.panic \/ enc.err
           THEN /\ pc' = "panic"
                /\ atk' = atk
           ELSE /\ pc' = "profile1"
                /\ atk' = [atk EXCEPT !.cipherText1 = enc.data]
    /\ UNCHANGED <<input, output, cipherText>>

\* cipherText2 = ECBEncOracle(profile2)
CutPasteProfile2 ==
    /\ pc = "profile1"
    /\ LET profile2 == profileFor(User2)
           enc      == cutPasteEncOracle(profile2.data)
       IN  IF profile2.panic \/ enc.err
           THEN /\ pc' = "panic"
                /\ atk' = atk
           ELSE /\ pc' = "profile2"
                /\ atk' = [atk EXCEPT !.cipherText2 = enc.data]
    /\ UNCHANGED <<input, output, cipherText>>

\* the paste, the decryption and the return of the unpadded cookie
CutPasteForge ==
    /\ pc = "profile2"
    /\ LET forged   == adminCipherText(atk.cipherText1, atk.cipherText2)
           dec      == cutPasteDecOracle(forged)
           unpadded == RemovePKCS7(dec.data)
       IN  IF dec.err
           THEN /\ pc' = "panic"
                /\ atk' = [atk EXCEPT !.adminCipherText = forged]
                /\ output' = output
           ELSE /\ pc' = "returned"
                /\ atk' = [atk EXCEPT !.adminCipherText = forged, !.decrypted = dec.data]
                /\ output' = [cookie |-> unpadded.data, padErr |-> unpadded.err,
                              panic |-> FALSE, profile |-> <<>>]
    /\ UNCHANGED <<input, cipherText>>

\* adminProfile := parseProfile(adminCookie)
CutPasteParse ==
    /\ pc = "returned"
    /\ LET parsed == parseProfile(output.cookie)
       IN  output' = [output EXCEPT !.panic = parsed.panic, !.profile = parsed.profile]
    /\ pc' = "parsed"
    /\ UNCHANGED <<input, cipherText, atk>>

---------------------------------------------------------------------------
(* Specification SpecCutPaste: TestCutAndPasteAtk for a family of keys      *)

MaxCutPasteKeySeed == 7

\* key, err := cpbytes.Random(aes.BlockSize, aes.BlockSize)
CutPasteKeys ==
    {Pattern(seed, step, BlockSize) : seed \in 0..MaxCutPasteKeySeed, step \in {0, 11, 29}}

\* wantProfile of the test
WantProfile ==
    [k \in {<<101, 109, 97, 105, 108>>, <<117, 105, 100>>, <<114, 111, 108, 101>>} |->
        IF k = <<101, 109, 97, 105, 108>> THEN User1
        ELSE IF k = <<117, 105, 100>> THEN <<49, 48>>
        ELSE Admin]

InitCutPaste ==
    /\ pc = "call"
    /\ \E key \in CutPasteKeys : input = [key |-> key]
    /\ output = "none"
    /\ cipherText = <<>>
    /\ atk = NewCutPaste

NextCutPaste == CutPasteProfile1 \/ CutPasteProfile2 \/ CutPasteForge \/ CutPasteParse

SpecCutPaste == InitCutPaste /\ [][NextCutPaste]_vars

\* C27: for every key, cutAndPasteAtk with ECB oracles under that key returns
\* a cookie that parseProfile decodes to exactly {email: foooo@bar.com,
\* uid: 10, role: admin}; the forged cipher text is blocks 0-1 of the first
\* profile's cipher text followed by block 1 of the second's, and its
\* decryption is validly PKCS7-padded.
C27_CutAndPasteGivesAdmin ==
    /\ pc # "panic"
    /\ pc \in {"returned", "parsed"} =>
           /\ atk.cipherText1 = encryptECB(EmailEq \o User1 \o UidRoleUser, input.key).data
           /\ atk.cipherText2 = encryptECB(EmailEq \o User2 \o UidRoleUser, input.key).data
           /\ atk.adminCipherText =
                  SubSeq(atk.cipherText1, 1, 2 * BlockSize)
                      \o SubSeq(atk.cipherText2, BlockSize + 1, 2 * BlockSize)
           /\ atk.decrypted = decryptECB(atk.adminCipherText, input.key).data
           /\ ~output.padErr
           /\ PKCS7(output.cookie, BlockSize) = atk.decrypted
    /\ pc = "parsed" =>
           /\ ~output.panic
           /\ output.profile = WantProfile

\* the test parsed the returned cookie, which ends in role=admin
C27_Witness ==
    /\ pc = "parsed"
    /\ atk.fn = "cutAndPasteAtk"
    /\ ~output.panic
    /\ Len(output.cookie) = 37
    /\ SubSeq(output.cookie, 33, 37) = Admin

---------------------------------------------------------------------------
(* cpaes: the CBC bit-flipping attacks (challenge 16) *)

\* "comment1=cooking%20MCs;userdata="
AffixPrefix ==
    <<99, 111, 109, 109, 101, 110, 116, 49, 61, 99, 111, 111, 107, 105, 110, 103, 37, 50, 48, 77, 67, 115, 59, 117, 115, 101, 114, 100, 97, 116, 97, 61>>

\* ";comment2=%20like%20a%20pound%20of%20bacon"
AffixSuffix ==
    <<59, 99, 111, 109, 109, 101, 110, 116, 50, 61, 37, 50, 48, 108, 105, 107, 101, 37, 50, 48, 97, 37, 50, 48, 112, 111, 117, 110, 100, 37, 50, 48, 111, 102, 37, 50, 48, 98, 97, 99, 111, 110>>

\* "00000;admin=true"
AtkText == <<48, 48, 48, 48, 48, 59, 97, 100, 109, 105, 110, 61, 116, 114, 117, 101>>

\* ";admin=true;"
AdminTuple == <<59, 97, 100, 109, 105, 110, 61, 116, 114, 117, 101, 59>>

Semicolon == 59

\* the two bytes.ReplaceAll of enc: ';' becomes "%3B", '=' becomes "%3D"
RECURSIVE quoteOut(_)
quoteOut(plainText) ==
    IF plainText = <<>> THEN <<>>
    ELSE (IF Head(plainText) = Semicolon THEN <<37, 51, 66>>
          ELSE IF Head(plainText) = EqualsSign THEN <<37, 51, 68>>
          ELSE <<Head(plainText)>>) \o quoteOut(Tail(plainText))

\* enc of cbcOraclesWithAffix: [err, data] (the closure panics on err)
affixEnc(plainText) ==
    encryptCBC(input.iv, AffixPrefix \o quoteOut(plainText) \o AffixSuffix, input.key)

\* dec of cbcOraclesWithAffix: [err, data] (the closure panics on err)
affixDec(cText) == decryptCBC(input.iv, cText, input.key)

\* bytes.Contains
Contains(b, subslice) ==
    \E i \in 0..(Len(b) - Len(subslice)) : Slice(b, i, i + Len(subslice)) = subslice

\* fillerBlks = make([]byte, 32)
fillerBlks == Zeros(32)

prevCtBlkStartIdx == 32

\* the loop over b, mutated: the byte found is not written
flippedByteKept(old, filler, want) == old

\* the loop for b := range 256 of cbcBitFlippingAtk for one position: the
\* cipher text byte after it, the first b with old ^ filler ^ b == want, or
\* the old byte when the loop ends without a hit
flippedByte(old, filler, want) ==
    LET hits == {b \in Byte : Xor(Xor(old, filler), b) = want}
    IN  IF hits = {} THEN old
        ELSE CHOOSE b \in hits : \A c \in hits : b <= c

NewBitFlip(fn) == [fn |-> fn, cipherText |-> <<>>]

\* cipherText = encOracle(fillerBlks), in both attacks
BitFlipEncrypt ==
    /\ pc = "call"
    /\ atk.fn \in {"cbcBitFlippingAtk", "cbcBitFlippingAtk2"}
    /\ LET enc == affixEnc(fillerBlks)
       IN  IF enc.err
           THEN /\ pc' = "panic"
                /\ UNCHANGED <<cipherText, atk>>
           ELSE /\ pc' = "encrypted"
                /\ cipherText' = enc.data
                /\ atk' = [atk EXCEPT !.cipherText = enc.data]
    /\ UNCHANGED <<input, output>>

\* the two loops of cbcBitFlippingAtk
BitFlipLoops ==
    /\ pc = "encrypted"
    /\ atk.fn = "cbcBitFlippingAtk"
    /\ atk' = [atk EXCEPT !.cipherText =
                  [p \in 1..Len(atk.cipherText) |->
                      LET i == (p - 1) - prevCtBlkStartIdx
                      IN  IF i \in 0..(BlockSize - 1)
                          THEN flippedByte(atk.cipherText[p], At(fillerBlks, i), At(AtkText, i))
                          ELSE atk.cipherText[p]]]
    /\ pc' = "flipped"
    /\ UNCHANGED <<input, output, cipherText>>

\* atkBlk, newPrevCtBlk and the copy of cbcBitFlippingAtk2
BitFlipXorBlk ==
    /\ pc = "encrypted"
    /\ atk.fn = "cbcBitFlippingAtk2"
    /\ LET atkBlk       == Blocks(AtkText, Slice(fillerBlks, 0, 16)).data
           oldPrevCtBlk == Slice(atk.cipherText, 32, 48)
           newPrevCtBlk == Blocks(oldPrevCtBlk, atkBlk).data
       IN  atk' = [atk EXCEPT !.cipherText =
                      Slice(atk.cipherText, 0, 32) \o newPrevCtBlk
                          \o Slice(atk.cipherText, 48, Len(atk.cipherText))]
    /\ pc' = "flipped"
    /\ UNCHANGED <<input, output, cipherText>>

\* return decOracle(cipherText), in both attacks
BitFlipDecrypt ==
    /\ pc = "flipped"
    /\ LET dec == affixDec(atk.cipherText)
       IN  IF dec.err
           THEN /\ pc' = "panic"
                /\ output' = output
           ELSE /\ pc' = "done"
                /\ output' = dec
    /\ UNCHANGED <<input, cipherText, atk>>

---------------------------------------------------------------------------
(* Specification SpecBitFlip: TestCBCBitFlippingAtk and                     *)
(* TestCBCBitFlippingAtk2 for a family of keys and IVs                      *)

MaxBitFlipSeed == 3

\* iv and key of cbcOraclesWithAffix, 16 random bytes each
BitFlipKeys == {Pattern(89 + 40 * seed, 11, BlockSize) : seed \in 0..MaxBitFlipSeed}

BitFlipIVs == {Pattern(5 * seed, 29 * seed, BlockSize) : seed \in 0..MaxBitFlipSeed}

InitBitFlip ==
    /\ pc = "call"
    /\ \E key \in BitFlipKeys, iv \in BitFlipIVs : input = [key |-> key, iv |-> iv]
    /\ output = "none"
    /\ cipherText = <<>>
    /\ \E fn \in {"cbcBitFlippingAtk", "cbcBitFlippingAtk2"} : atk = NewBitFlip(fn)

NextBitFlip == BitFlipEncrypt \/ BitFlipLoops \/ BitFlipXorBlk \/ BitFlipDecrypt

SpecBitFlip == InitBitFlip /\ [][NextBitFlip]_vars

\* C28: for every key and IV of cbcOraclesWithAffix, cbcBitFlippingAtk and
\* cbcBitFlippingAtk2 both return a plain text containing ";admin=true;":
\* both change only the cipher text bytes 32..47, to the same values (old
\* byte XOR filler byte XOR target byte), so that plain text block 3 is
\* "00000;admin=true", followed at once by the ';' that begins the suffix.
C28_BitFlipGivesAdminTuple ==
    /\ pc # "panic"
    /\ pc \in {"flipped", "done"} =>
           /\ Len(atk.cipherText) = Len(cipherText)
           /\ \A p \in 0..(Len(cipherText) - 1) :
                  At(atk.cipherText, p) =
                      IF p \in 32..47
                      THEN Xor(Xor(At(cipherText, p), 0), At(AtkText, p - 32))
                      ELSE At(cipherText, p)
    /\ pc = "done" =>
           /\ ~output.err
           /\ Slice(output.data, 3 * BlockSize, 4 * BlockSize) = AtkText
           /\ At(output.data, 4 * BlockSize) = Semicolon
           /\ Contains(output.data, AdminTuple)

\* cbcBitFlippingAtk returned, with a non-zero IV, a plain text whose
\* block 3 is not the filler any more
C28_Witness ==
    /\ pc = "done"
    /\ atk.fn = "cbcBitFlippingAtk"
    /\ input.iv # Zeros(BlockSize)
    /\ atk.cipherText # cipherText
    /\ Slice(output.data, 3 * BlockSize, 4 * BlockSize) # Zeros(BlockSize)

---------------------------------------------------------------------------
(* cpxor: estimateXORKeySize, one goroutine per candidate key size *)

\* bits.OnesCount8
RECURSIVE OnesCount8(_)
OnesCount8(x) == IF x = 0 THEN 0 ELSE (x % 2) + OnesCount8(x \div 2)

RECURSIVE hammingLoop(_, _, _)
hammingLoop(a, b, i) ==
    IF i = Len(a) THEN 0
    ELSE OnesCount8(Xor(At(a, i), At(b, i))) + hammingLoop(a, b, i + 1)

\* hammingDistance(a, b): [err, distance]
hammingDistance(a, b) ==
    IF Len(a) # Len(b) THEN [err |-> TRUE, distance |-> 0]
    ELSE [err |-> FALSE, distance |-> hammingLoop(a, b, 0)]

\* the loop over the pairs of blocks of size k from the given pair on:
\* [err, totEditDist]
RECURSIVE editDistLoop(_, _, _, _)
editDistLoop(cText, k, pair, nPairs) ==
    IF pair = nPairs THEN [err |-> FALSE, totEditDist |-> 0]
    ELSE LET blockA   == Slice(cText, pair * 2 * k, (pair * 2 + 1) * k)
             blockB   == Slice(cText, (pair * 2 + 1) * k, (pair * 2 + 2) * k)
             editDist == hammingDistance(blockA, blockB)
             rest     == editDistLoop(cText, k, pair + 1, nPairs)
         IN  IF editDist.err \/ rest.err THEN [err |-> TRUE, totEditDist |-> 0]
             ELSE [err |-> FALSE, totEditDist |-> editDist.distance + rest.totEditDist]

\* a float64 is kept as the quotient num / den it stands for; math.MaxFloat64
\* is above every quotient
MaxFloat64 == [num |-> 1, den |-> 0]

\* a < b on these quotients
LessFloat(a, b) == a.num * b.den < b.num * a.den

\* normalizedEditDist of the goroutine for size k:
\* (totEditDist / nPairs) / k
normalizedEditDist(cText, k) ==
    LET nPairs == Len(cText) \div (2 * k)
        tot    == editDistLoop(cText, k, 0, nPairs)
    IN  [err |-> tot.err, num |-> tot.totEditDist, den |-> nPairs * k]

\* mu.Lock() returns only when no goroutine holds mu (0: not held)
LockAcquirable(mu) == mu = 0

NewEstimate(maxKeySize) ==
    [fn |-> "estimateXORKeySize", size |-> 2,
     minEditDist |-> MaxFloat64, keySizeGuess |-> 0, mu |-> 0,
     gpc  |-> [k \in 2..maxKeySize |-> "idle"],
     dist |-> [k \in 2..maxKeySize |-> MaxFloat64],
     failed |-> FALSE]

\* one iteration of the loop over size: errG.Go, or the end of the loop
EstimateSpawn ==
    /\ pc = "call"
    /\ atk.fn = "estimateXORKeySize"
    /\ IF atk.size <= input.maxKeySize /\ atk.size * 2 < Len(input.cipherText)
       THEN /\ atk' = [atk EXCEPT !.gpc[atk.size] = "go", !.size = atk.size + 1]
            /\ pc' = "call"
       ELSE /\ atk' = atk
            /\ pc' = "wait"
    /\ UNCHANGED <<input, output, cipherText>>

\* the goroutine for size k up to mu.Lock(): its distance
GoCompute(k) ==
    /\ atk.fn = "estimateXORKeySize"
    /\ atk.gpc[k] = "go"
    /\ LET d == normalizedEditDist(input.cipherText, k)
       IN  IF d.err
           THEN atk' = [atk EXCEPT !.gpc[k] = "finished", !.failed = TRUE]
           ELSE atk' = [atk EXCEPT !.gpc[k] = "lock",
                                   !.dist[k] = [num |-> d.num, den |-> d.den]]
    /\ UNCHANGED <<pc, input, output, cipherText>>

\* mu.Lock()
GoLock(k) ==
    /\ atk.fn = "estimateXORKeySize"
    /\ atk.gpc[k] = "lock"
    /\ LockAcquirable(atk.mu)
    /\ atk' = [atk EXCEPT !.mu = k, !.gpc[k] = "test"]
    /\ UNCHANGED <<pc, input, output, cipherText>>

\* if normalizedEditDist < minEditDist
GoTest(k) ==
    /\ atk.fn = "estimateXORKeySize"
    /\ atk.gpc[k] = "test"
    /\ atk' = [atk EXCEPT !.gpc[k] = IF LessFloat(atk.dist[k], atk.minEditDist)
                                     THEN "store" ELSE "unlock"]
    /\ UNCHANGED <<pc, input, output, cipherText>>

\* minEditDist = normalizedEditDist; keySizeGuess = k
GoStore(k) ==
    /\ atk.fn = "estimateXORKeySize"
    /\ atk.gpc[k] = "store"
    /\ atk' = [atk EXCEPT !.minEditDist = atk.dist[k], !.keySizeGuess = k,
                          !.gpc[k] = "unlock"]
    /\ UNCHANGED <<pc, input, output, cipherText>>

\* mu.Unlock(); return nil
GoUnlock(k) ==
    /\ atk.fn = "estimateXORKeySize"
    /\ atk.gpc[k] = "unlock"
    /\ atk' = [atk EXCEPT !.mu = 0, !.gpc[k] = "finished"]
    /\ UNCHANGED <<pc, input, output, cipherText>>

\* errG.Wait() and the return
EstimateWait ==
    /\ pc = "wait"
    /\ atk.fn = "estimateXORKeySize"
    /\ \A k \in DOMAIN atk.gpc : atk.gpc[k] \in {"idle", "finished"}
    /\ output' = IF atk.failed THEN [err |-> TRUE, keySize |-> 0]
                 ELSE [err |-> FALSE, keySize |-> atk.keySizeGuess]
    /\ pc' = "done"
    /\ UNCHANGED <<input, cipherText, atk>>

---------------------------------------------------------------------------
(* Specification SpecEstimate: estimateXORKeySize under every interleaving  *)
(* of its goroutines                                                        *)

MaxXorCipherLen == 9

MaxKeySizeArg == 4

\* cipher texts of equal bytes (every size at distance 0), of bytes that
\* repeat with period 3, and of bytes without a period
XorCipherPatterns == {<<0, 0, 0>>, <<1, 2, 4>>, <<1, 3, 2, 6, 4, 12, 8, 24, 16, 48>>}

XorCipherText(pat, n) == [i \in 1..n |-> pat[((i - 1) % Len(pat)) + 1]]

InitEstimate ==
    /\ pc = "call"
    /\ \E n \in 0..MaxXorCipherLen, pat \in XorCipherPatterns, maxKeySize \in 0..MaxKeySizeArg :
          /\ input = [cipherText |-> XorCipherText(pat, n), maxKeySize |-> maxKeySize]
          /\ atk = NewEstimate(maxKeySize)
    /\ output = "none"
    /\ cipherText = <<>>

NextEstimate ==
    \/ EstimateSpawn
    \/ \E k \in DOMAIN atk.gpc : GoCompute(k)
    \/ \E k \in DOMAIN atk.gpc : GoLock(k)
    \/ \E k \in DOMAIN atk.gpc : GoTest(k)
    \/ \E k \in DOMAIN atk.gpc : GoStore(k)
    \/ \E k \in DOMAIN atk.gpc : GoUnlock(k)
    \/ EstimateWait

SpecEstimate == InitEstimate /\ [][NextEstimate]_vars

\* the candidate key sizes of a call
CandidateSizes ==
    {k \in 2..input.maxKeySize : k * 2 < Len(input.cipherText)}

\* the candidate sizes at the least normalized edit distance
MinimizingSizes ==
    {k \in CandidateSizes :
        \A j \in CandidateSizes :
            ~LessFloat(normalizedEditDist(input.cipherText, j),
                       normalizedEditDist(input.cipherText, k))}

\* C29: in estimateXORKeySize, under every interleaving of the goroutines,
\* minEditDist and keySizeGuess are read and written only by the goroutine
\* holding the mutex; the result is read only after every goroutine has
\* finished; the returned key size has the least normalized edit distance of
\* all candidate sizes; and the returned key size is the same for every
\* interleaving, that is, determined by the arguments alone.
C29_KeySizeSameForEveryInterleaving ==
    atk.fn = "estimateXORKeySize" =>
        /\ \A k \in DOMAIN atk.gpc :
               atk.gpc[k] \in {"test", "store", "unlock"} => atk.mu = k
        /\ pc = "done" =>
               /\ \A k \in CandidateSizes : atk.gpc[k] = "finished"
               /\ ~output.err
               /\ CandidateSizes # {} =>
                      /\ output.keySize \in MinimizingSizes
                      /\ output.keySize = CHOOSE k \in MinimizingSizes : TRUE

---------------------------------------------------------------------------
(* Specification SpecTranspose: transposeAndFlattenBlocks on blocks with    *)
(* chunk counts that differ                                                 *)

MaxTransposeBlocks == 4

MaxTransposeChunks == 4

\* chunk c of block b, a chunk no other place holds
TransposeChunk(b, c) == <<65 + b, 97 + c>>

\* the block lists: 1..MaxTransposeBlocks blocks of 0..MaxTransposeChunks
\* chunks each
TransposeInputs ==
    UNION {{[b \in 1..n |-> [c \in 1..counts[b] |-> TransposeChunk(b, c)]] :
               counts \in [1..n -> 0..MaxTransposeChunks]} :
           n \in 1..MaxTransposeBlocks}

InitTranspose ==
    /\ pc = "call"
    /\ \E blocks \in TransposeInputs : input = [blocks |-> blocks]
    /\ output = "none"
    /\ cipherText = <<>>
    /\ atk = [fn |-> "transposeAndFlattenBlocks", blocks |-> <<>>]

\* gotResult := transposeAndFlattenBlocks(blocks); atk.blocks is the
\* argument as the call leaves it, the function assigning to no element of it
CallTranspose ==
    /\ pc = "call"
    /\ atk.fn = "transposeAndFlattenBlocks"
    /\ output' = [result |-> transposeAndFlattenBlocks(input.blocks)]
    /\ atk' = [atk EXCEPT !.blocks = input.blocks]
    /\ pc' = "done"
    /\ UNCHANGED <<input, cipherText>>

NextTranspose == CallTranspose

SpecTranspose == InitTranspose /\ [][NextTranspose]_vars

\* C30: transposeAndFlattenBlocks has zip semantics: with n blocks and m the
\* least number of chunks of a block, the result has exactly m*n entries,
\* result[i*n + j] = blocks[j][i] for all i < m and j < n; the chunks of
\* index m and above of longer blocks are dropped; the inputs are not
\* modified.
C30_TransposeIsZip ==
    (atk.fn = "transposeAndFlattenBlocks" /\ pc = "done") =>
        LET blocks == input.blocks
            n      == Len(blocks)
            m      == CHOOSE c \in 0..MaxTransposeChunks :
                          /\ \E b \in 1..n : Len(blocks[b]) = c
                          /\ \A b \in 1..n : Len(blocks[b]) >= c
        IN  /\ Len(output.result) = m * n
            /\ \A i \in 0..(m - 1), j \in 0..(n - 1) :
                   output.result[i * n + j + 1] = blocks[j + 1][i + 1]
            /\ \A b \in 1..n : \A c \in 1..Len(blocks[b]) :
                   c > m => \A r \in 1..Len(output.result) : output.result[r] # blocks[b][c]
            /\ atk.blocks = blocks

\* three blocks of 3, 2 and 3 chunks gave six chunks, the third chunks of
\* the longer blocks being dropped
C30_Witness ==
    /\ atk.fn = "transposeAndFlattenBlocks"
    /\ pc = "done"
    /\ Len(input.blocks) = 3
    /\ Len(input.blocks[1]) = 3
    /\ Len(input.blocks[2]) = 2
    /\ Len(input.blocks[3]) = 3
    /\ Len(output.result) = 6

====
